---- MODULE Spec2Model ----
(***************************************************************************)
(* Closed-loop motor control of the Duet 3 expansion firmware              *)
(* (src/src/ClosedLoop/ClosedLoop.cpp): the PID iteration, the tuning      *)
(* task, sample acquisition and telemetry transmission.                    *)
(*                                                                         *)
(* Numbers.  A C++ float is modelled as a record that is either a finite   *)
(* value on a fixed-point grid, an infinity or a NaN; finite arithmetic is *)
(* exact (no rounding).  Positions (steps) are in units of 1/StepScale     *)
(* step, gains in units of 1/GainScale, and the PID terms, being products  *)
(* of the two, in units of 1/TermScale.  Conversions of a float that is    *)
(* out of range for the integer type it is converted to are undefined in   *)
(* C++; they are modelled as a choice over the values the ARM builds       *)
(* produce (a saturated value or zero).                                    *)
(***************************************************************************)
EXTENDS Integers, Sequences, FiniteSets, TLC

\* ---------------------------------------------------------------- scales
StepScale == 16
GainScale == 200
TermScale == GainScale * StepScale

\* ------------------------------------------------------ program constants
\* sampleBuffer holds CLOSED_LOOP_DATA_BUFFER_SIZE * 12 floats.
CLOSED_LOOP_DATA_BUFFER_SIZE == 50
VariablesPerReading == 12
BufferCapacity == CLOSED_LOOP_DATA_BUFFER_SIZE * VariablesPerReading
\* The anti-windup ceiling of PIDITerm and the range of PIDControlSignal.
IntegralCeiling == 512
MaxSignal == 255
PhaseShiftPerSignal == 4
\* stepPhase is the fraction of a 4-step cycle times 4095; phases wrap at 4096.
StepsPerCycle == 4
PhaseScale == 4095
PhasePeriod == 4096
WrapCorrection == 4095
SweepIncrement == 256
\* CAN payload: at most 14 floats of sample data in one packet.
MaxFloatsInPacket == 14
TicksPerSecond == 1000
Two16 == 65536

\* ------------------------------------------------------------ float values
Fin(n) == [k |-> "fin", v |-> n]
PosInf == [k |-> "inf", v |-> 1]
NegInf == [k |-> "inf", v |-> -1]
NaN == [k |-> "nan", v |-> 0]

IsFin(x) == x.k = "fin"
IsNaN(x) == x.k = "nan"
IsInf(x) == x.k = "inf"

Sgn(n) == IF n > 0 THEN 1 ELSE IF n < 0 THEN -1 ELSE 0
AbsInt(n) == IF n < 0 THEN -n ELSE n
MinInt(a, b) == IF a < b THEN a ELSE b
MaxInt(a, b) == IF a > b THEN a ELSE b

FNeg(x) == [x EXCEPT !.v = -x.v]
FAbs(x) == [x EXCEPT !.v = AbsInt(x.v)]

FAdd(x, y) ==
    IF IsNaN(x) \/ IsNaN(y) THEN NaN
    ELSE IF IsFin(x) /\ IsFin(y) THEN Fin(x.v + y.v)
    ELSE IF IsInf(x) /\ IsInf(y) THEN (IF x.v = y.v THEN x ELSE NaN)
    ELSE IF IsInf(x) THEN x ELSE y

FSub(x, y) == FAdd(x, FNeg(y))

\* The product of two floats; the product of two finite values has the
\* product of their scales.
FMul(x, y) ==
    IF IsNaN(x) \/ IsNaN(y) THEN NaN
    ELSE IF IsFin(x) /\ IsFin(y) THEN Fin(x.v * y.v)
    ELSE IF x.v = 0 \/ y.v = 0 THEN NaN
    ELSE IF Sgn(x.v) = Sgn(y.v) THEN PosInf ELSE NegInf

\* x < y and x == y as IEEE comparisons: false when either is a NaN.
FLt(x, y) ==
    /\ ~IsNaN(x) /\ ~IsNaN(y)
    /\ IF IsFin(x) /\ IsFin(y) THEN x.v < y.v
       ELSE IF IsInf(x) /\ IsInf(y) THEN x.v < y.v
       ELSE IF IsInf(x) THEN x.v < 0 ELSE y.v > 0
FEq(x, y) == ~IsNaN(x) /\ ~IsNaN(y) /\ x = y
FGe(x, y) == FLt(y, x) \/ FEq(x, y)

\* Truncation toward zero of a / b, b > 0: a C float-to-integer conversion.
TruncDiv(a, b) == IF a >= 0 THEN a \div b ELSE -((-a) \div b)

\* An int32 stored into an int16_t, and an int stored into a uint16_t.
ToInt16(n) == ((n + 32768) % Two16) - 32768
ToUint16(n) == n % Two16

RECURSIVE PopCount(_)
PopCount(n) == IF n = 0 THEN 0 ELSE (n % 2) + PopCount(n \div 2)

BitSet(n, i) == (n \div (2 ^ i)) % 2 = 1

\* Quotients and weighted means of floats in the Ziegler-Nichols search are
\* kept as exact fractions n / d in lowest terms, d >= 0, or as a NaN.
RECURSIVE GCD(_, _)
GCD(a, b) == IF b = 0 THEN a ELSE GCD(b, a % b)

Ratio(n, d) ==
    LET g == GCD(AbsInt(n), d)
    IN  IF g = 0 THEN [k |-> "fin", n |-> n, d |-> d]
        ELSE [k |-> "fin", n |-> n \div g, d |-> d \div g]
RatioNaN == [k |-> "nan", n |-> 0, d |-> 1]
RatioIsZero(x) == x.k = "fin" /\ x.n = 0
\* x < n / d
RatioLt(x, n, d) == x.k = "fin" /\ x.n * d < n * x.d
\* (a * x + b * y) / 10
RatioMean(a, x, b, y) ==
    IF x.k = "nan" \/ y.k = "nan" THEN RatioNaN
    ELSE Ratio(a * x.n * y.d + b * y.n * x.d, 10 * x.d * y.d)
\* The quotient of two positive floats.
RatioOf(x, y) ==
    IF IsFin(x) /\ IsFin(y) THEN Ratio(x.v, y.v)
    ELSE IF IsFin(x) THEN Ratio(0, 1)
    ELSE IF IsFin(y) THEN Ratio(1, 0)
    ELSE RatioNaN

\* ------------------------------------------------- undefined conversions
\* (uint16_t) of an infinite or NaN float, (int16_t) of a NaN float and
\* (int) of an infinite float are undefined: the hardware conversion
\* saturates (low 16 bits all ones) or gives zero; constrain<float> of a NaN
\* gives the NaN or one of its limits, depending on how min and max compare.
UndefinedUint16 == {0, 65535}
UndefinedSignal == {0, MaxSignal, -MaxSignal}
UndefinedInt == {2147483647, -2147483647}

\* ------------------------------------------------------- tuning bitmasks
POLARITY_DETECTION_MANOEUVRE == "POLARITY_DETECTION_MANOEUVRE"
ZEROING_MANOEUVRE == "ZEROING_MANOEUVRE"
POLARITY_CHECK == "POLARITY_CHECK"
CONTROL_CHECK == "CONTROL_CHECK"
ENCODER_STEPS_CHECK == "ENCODER_STEPS_CHECK"
CONTINUOUS_PHASE_INCREASE_MANOEUVRE == "CONTINUOUS_PHASE_INCREASE_MANOEUVRE"
STEP_MANOEUVRE == "STEP_MANOEUVRE"
ZIEGLER_NICHOLS_MANOEUVRE == "ZIEGLER_NICHOLS_MANOEUVRE"

TUNE_ERR_NOT_FOUND_POLARITY == "TUNE_ERR_NOT_FOUND_POLARITY"
TUNE_ERR_NOT_ZEROED == "TUNE_ERR_NOT_ZEROED"
TUNE_ERR_NOT_CHECKED_POLARITY == "TUNE_ERR_NOT_CHECKED_POLARITY"
TUNE_ERR_NOT_CHECKED_CONTROL == "TUNE_ERR_NOT_CHECKED_CONTROL"
TUNE_ERR_NOT_CHECKED_ENCODER_STEPS == "TUNE_ERR_NOT_CHECKED_ENCODER_STEPS"
TUNE_ERR_INCORRECT_POLARITY == "TUNE_ERR_INCORRECT_POLARITY"
TUNE_ERR_CONTROL_FAILED == "TUNE_ERR_CONTROL_FAILED"
TUNE_ERR_SYSTEM_ERROR == "TUNE_ERR_SYSTEM_ERROR"
TUNE_ERR_NOT_PERFORMED_MINIMAL_TUNE ==
    {TUNE_ERR_NOT_FOUND_POLARITY, TUNE_ERR_NOT_ZEROED, TUNE_ERR_NOT_CHECKED_POLARITY,
     TUNE_ERR_NOT_CHECKED_CONTROL, TUNE_ERR_NOT_CHECKED_ENCODER_STEPS}

\* --------------------------------------------------------------- bounds
\* Positions (in full steps) at which the load can leave the motor, the
\* scales and gains a configuration command can carry, and how far the
\* model lets counters run.
MaxEncoderCount == 1
MaxTargetSteps == 1
MaxPidIterations == 3
\* Ticks of the Ziegler-Nichols search against the motors of SpecSearch.
MaxSearchTicks == 200
MaxCommands == 3
\* The encoder of the modelled motor gives this many counts per full step.
TrueCountsPerStep == 16

EncoderCounts == {c * TrueCountsPerStep : c \in -MaxEncoderCount .. MaxEncoderCount}
\* ------------------------------------------------------------ variables
VARIABLES
    \* control variables (configuration)
    closedLoopEnabled, tuningError, tuning, coilAPolarity, coilBPolarity,
    Kp, Ki, Kd, errorThresholds, encoder, encoderCountPerStep,
    ultimateGain, oscillationPeriod,
    \* working variables of the control loop
    rawEncoderReading, currentMotorSteps, targetMotorSteps, currentError, lastError,
    PIDPTerm, PIDITerm, PIDDTerm, PIDControlSignal, phaseShift, stepPhase,
    desiredStepPhase, motorPhase,
    \* data collection
    collectingData, rateRequested, filterRequested, samplesRequested, modeRequested,
    movementRequested, sampleBuffer, sampleBufferReadPointer, sampleBufferWritePointer,
    \* the tasks: where each is and its local variables
    tuningTask, dataTransmissionTask, dataCollectionTask, commandTask,
    \* the drive and the motor (environment)
    driverMode, plant, encoderOffset,
    \* observation: what was sent and acquired, what the last command
    \* returned, how many PID iterations ran and commands arrived, whether the
    \* firmware faulted
    packets, acquired, lastCommand, pidIterations, commandCount, crashed

vars == <<closedLoopEnabled, tuningError, tuning, coilAPolarity, coilBPolarity,
          Kp, Ki, Kd, errorThresholds, encoder, encoderCountPerStep,
          ultimateGain, oscillationPeriod,
          rawEncoderReading, currentMotorSteps, targetMotorSteps, currentError,
          lastError, PIDPTerm, PIDITerm, PIDDTerm, PIDControlSignal, phaseShift,
          stepPhase, desiredStepPhase, motorPhase,
          collectingData, rateRequested, filterRequested, samplesRequested,
          modeRequested, movementRequested, sampleBuffer, sampleBufferReadPointer,
          sampleBufferWritePointer,
          tuningTask, dataTransmissionTask, dataCollectionTask, commandTask,
          driverMode, plant, encoderOffset,
          packets, acquired, lastCommand, pidIterations, commandCount, crashed>>

\* The program is sequential code between suspension points, so each
\* operation is written as a function from the state it starts in to the
\* states it can end in.  Now is the current state as a record, and Becomes
\* makes such a record the next state.
Now ==
    [closedLoopEnabled |-> closedLoopEnabled, tuningError |-> tuningError,
     tuning |-> tuning, coilAPolarity |-> coilAPolarity,
     coilBPolarity |-> coilBPolarity, Kp |-> Kp, Ki |-> Ki, Kd |-> Kd,
     errorThresholds |-> errorThresholds, encoder |-> encoder,
     encoderCountPerStep |-> encoderCountPerStep,
     ultimateGain |-> ultimateGain, oscillationPeriod |-> oscillationPeriod,
     rawEncoderReading |-> rawEncoderReading, currentMotorSteps |-> currentMotorSteps,
     targetMotorSteps |-> targetMotorSteps, currentError |-> currentError,
     lastError |-> lastError, PIDPTerm |-> PIDPTerm, PIDITerm |-> PIDITerm,
     PIDDTerm |-> PIDDTerm, PIDControlSignal |-> PIDControlSignal,
     phaseShift |-> phaseShift, stepPhase |-> stepPhase,
     desiredStepPhase |-> desiredStepPhase, motorPhase |-> motorPhase,
     collectingData |-> collectingData, rateRequested |-> rateRequested,
     filterRequested |-> filterRequested, samplesRequested |-> samplesRequested,
     modeRequested |-> modeRequested, movementRequested |-> movementRequested,
     sampleBuffer |-> sampleBuffer, sampleBufferReadPointer |-> sampleBufferReadPointer,
     sampleBufferWritePointer |-> sampleBufferWritePointer,
     tuningTask |-> tuningTask, dataTransmissionTask |-> dataTransmissionTask,
     dataCollectionTask |-> dataCollectionTask, commandTask |-> commandTask,
     driverMode |-> driverMode, plant |-> plant, encoderOffset |-> encoderOffset,
     packets |-> packets, acquired |-> acquired, lastCommand |-> lastCommand,
     pidIterations |-> pidIterations, commandCount |-> commandCount,
     crashed |-> crashed]

Becomes(s) ==
    /\ closedLoopEnabled' = s.closedLoopEnabled
    /\ tuningError' = s.tuningError
    /\ tuning' = s.tuning
    /\ coilAPolarity' = s.coilAPolarity
    /\ coilBPolarity' = s.coilBPolarity
    /\ Kp' = s.Kp
    /\ Ki' = s.Ki
    /\ Kd' = s.Kd
    /\ errorThresholds' = s.errorThresholds
    /\ encoder' = s.encoder
    /\ encoderCountPerStep' = s.encoderCountPerStep
    /\ ultimateGain' = s.ultimateGain
    /\ oscillationPeriod' = s.oscillationPeriod
    /\ rawEncoderReading' = s.rawEncoderReading
    /\ currentMotorSteps' = s.currentMotorSteps
    /\ targetMotorSteps' = s.targetMotorSteps
    /\ currentError' = s.currentError
    /\ lastError' = s.lastError
    /\ PIDPTerm' = s.PIDPTerm
    /\ PIDITerm' = s.PIDITerm
    /\ PIDDTerm' = s.PIDDTerm
    /\ PIDControlSignal' = s.PIDControlSignal
    /\ phaseShift' = s.phaseShift
    /\ stepPhase' = s.stepPhase
    /\ desiredStepPhase' = s.desiredStepPhase
    /\ motorPhase' = s.motorPhase
    /\ collectingData' = s.collectingData
    /\ rateRequested' = s.rateRequested
    /\ filterRequested' = s.filterRequested
    /\ samplesRequested' = s.samplesRequested
    /\ modeRequested' = s.modeRequested
    /\ movementRequested' = s.movementRequested
    /\ sampleBuffer' = s.sampleBuffer
    /\ sampleBufferReadPointer' = s.sampleBufferReadPointer
    /\ sampleBufferWritePointer' = s.sampleBufferWritePointer
    /\ tuningTask' = s.tuningTask
    /\ dataTransmissionTask' = s.dataTransmissionTask
    /\ dataCollectionTask' = s.dataCollectionTask
    /\ commandTask' = s.commandTask
    /\ driverMode' = s.driverMode
    /\ plant' = s.plant
    /\ encoderOffset' = s.encoderOffset
    /\ packets' = s.packets
    /\ acquired' = s.acquired
    /\ lastCommand' = s.lastCommand
    /\ pidIterations' = s.pidIterations
    /\ commandCount' = s.commandCount
    /\ crashed' = s.crashed

\* A call through the null encoder pointer: the firmware faults.
Crash(s) == [s EXCEPT !.crashed = TRUE]

\* ------------------------------------------------------------ task records
\* The locals of the Ziegler-Nichols search.
NoSearch ==
    [prevKp |-> 0, prevKi |-> 0, prevKd |-> 0, direction |-> 1,
     lowerBound |-> 0, upperBound |-> 0, time |-> 0, initialRiseTime |-> 0,
     peakError |-> Fin(0), prevPeakError |-> Fin(0), prevTimestamp |-> 0,
     oscillationCount |-> 0, ewmaDecayFraction |-> Ratio(0, 1),
     ewmaOscillationPeriod |-> Ratio(0, 1)]
TuningLocals ==
    [coilPhase |-> 0, totalError |-> 0, correctCoilPhase |-> 0,
     correctCoilPhaseError |-> 0, totals |-> <<0, 0, 0, 0>>,
     max_err |-> 0, deviations |-> 0, zn |-> NoSearch]
TuningTaskIdle == [pc |-> "await", notified |-> FALSE, l |-> TuningLocals]
TransmissionIdle == [pc |-> "idle", variableCount |-> 0, maxSamplesInPacket |-> 0]
CollectionIdle == [pc |-> "await", notified |-> FALSE, i |-> 0, trigger |-> Fin(0)]
CommandIdle == [pc |-> "ready", prevTuningError |-> {}, desiredTuning |-> {}]
NoPhase == 0 - 1

\* task->Give(): a blocked task is made ready, otherwise the notification
\* is remembered.
Give(task) == [task EXCEPT !.notified = TRUE]

\* ------------------------------------------------------------------- Init
\* The state after ClosedLoop::Init(): statics have their initialisers, or
\* zero where they have none.
\* What CanInterface::Send has been given since the buffer was last reset:
\* the last packet, and the payloads and the number of samples of the
\* packets of the drain.
NoPackets ==
    [last |-> [kind |-> "none"], floats |-> << >>, samples |-> 0]

InitialState ==
    [closedLoopEnabled |-> FALSE,
     tuningError |-> TUNE_ERR_NOT_PERFORMED_MINIMAL_TUNE,
     tuning |-> {}, coilAPolarity |-> TRUE, coilBPolarity |-> FALSE,
     Kp |-> 100 * GainScale, Ki |-> 2, Kd |-> 10 * GainScale,
     errorThresholds |-> <<0, 0>>, encoder |-> "none", encoderCountPerStep |-> 0,
     ultimateGain |-> 0, oscillationPeriod |-> Ratio(0, 1),
     rawEncoderReading |-> 0, currentMotorSteps |-> Fin(0),
     targetMotorSteps |-> Fin(0), currentError |-> Fin(0), lastError |-> Fin(0),
     PIDPTerm |-> Fin(0), PIDITerm |-> Fin(0), PIDDTerm |-> Fin(0),
     PIDControlSignal |-> 0, phaseShift |-> 0, stepPhase |-> 0,
     desiredStepPhase |-> 0, motorPhase |-> NoPhase,
     collectingData |-> FALSE, rateRequested |-> 0, filterRequested |-> 0,
     samplesRequested |-> 0, modeRequested |-> "Immediate", movementRequested |-> 0,
     sampleBuffer |-> << >>, sampleBufferReadPointer |-> 0,
     sampleBufferWritePointer |-> 0,
     tuningTask |-> TuningTaskIdle, dataTransmissionTask |-> TransmissionIdle,
     dataCollectionTask |-> CollectionIdle, commandTask |-> CommandIdle,
     driverMode |-> "direct", plant |-> "stuck", encoderOffset |-> 0,
     packets |-> NoPackets, acquired |-> << >>, lastCommand |-> [op |-> "none", result |-> "none"],
     pidIterations |-> 0, commandCount |-> 0, crashed |-> FALSE]

\* The current state is s.
StartsAs(s) ==
    /\ closedLoopEnabled = s.closedLoopEnabled
    /\ tuningError = s.tuningError
    /\ tuning = s.tuning
    /\ coilAPolarity = s.coilAPolarity
    /\ coilBPolarity = s.coilBPolarity
    /\ Kp = s.Kp
    /\ Ki = s.Ki
    /\ Kd = s.Kd
    /\ errorThresholds = s.errorThresholds
    /\ encoder = s.encoder
    /\ encoderCountPerStep = s.encoderCountPerStep
    /\ ultimateGain = s.ultimateGain
    /\ oscillationPeriod = s.oscillationPeriod
    /\ rawEncoderReading = s.rawEncoderReading
    /\ currentMotorSteps = s.currentMotorSteps
    /\ targetMotorSteps = s.targetMotorSteps
    /\ currentError = s.currentError
    /\ lastError = s.lastError
    /\ PIDPTerm = s.PIDPTerm
    /\ PIDITerm = s.PIDITerm
    /\ PIDDTerm = s.PIDDTerm
    /\ PIDControlSignal = s.PIDControlSignal
    /\ phaseShift = s.phaseShift
    /\ stepPhase = s.stepPhase
    /\ desiredStepPhase = s.desiredStepPhase
    /\ motorPhase = s.motorPhase
    /\ collectingData = s.collectingData
    /\ rateRequested = s.rateRequested
    /\ filterRequested = s.filterRequested
    /\ samplesRequested = s.samplesRequested
    /\ modeRequested = s.modeRequested
    /\ movementRequested = s.movementRequested
    /\ sampleBuffer = s.sampleBuffer
    /\ sampleBufferReadPointer = s.sampleBufferReadPointer
    /\ sampleBufferWritePointer = s.sampleBufferWritePointer
    /\ tuningTask = s.tuningTask
    /\ dataTransmissionTask = s.dataTransmissionTask
    /\ dataCollectionTask = s.dataCollectionTask
    /\ commandTask = s.commandTask
    /\ driverMode = s.driverMode
    /\ plant = s.plant
    /\ encoderOffset = s.encoderOffset
    /\ packets = s.packets
    /\ acquired = s.acquired
    /\ lastCommand = s.lastCommand
    /\ pidIterations = s.pidIterations
    /\ commandCount = s.commandCount
    /\ crashed = s.crashed

Init == StartsAs(InitialState)

\* --------------------------------------------------------- SetMotorPhase
\* The phase is written to the driver; the coil currents, trigonometric
\* functions of the phase with the sign of the coil polarities, are not
\* modelled.
SetMotorPhase(s, phase) == [s EXCEPT !.motorPhase = phase]

\* ------------------------------------------------------------ the motor
\* How the motor answers a commanded phase while the tuning task sweeps it:
\* it follows the phase, runs the opposite way, or does not move ("free" is
\* a motor moved by the load, whatever the phase).  A full cycle of 4096
\* phase units is 4 full steps.
PlantModes == {"follow", "reverse", "stuck"}
PlantPosition(mode, phase) ==
    LET counts == (phase * TrueCountsPerStep * StepsPerCycle) \div PhasePeriod
    IN  CASE mode = "follow" -> counts
          [] mode = "reverse" -> -counts
          [] OTHER -> 0

\* What encoder->GetReading() can return in state s.
ReadingsIn(s) ==
    CASE s.plant = "free" -> {c + s.encoderOffset : c \in EncoderCounts}
      [] s.plant = "ring" ->
            LET target == (s.targetMotorSteps.v * s.encoderCountPerStep) \div StepScale
            IN  {IF s.rawEncoderReading > target
                 THEN target - s.encoderCountPerStep
                 ELSE target + s.encoderCountPerStep}
      [] s.plant = "still" -> {s.rawEncoderReading}
      [] OTHER -> {PlantPosition(s.plant, s.motorPhase) + s.encoderOffset}

\* ------------------------------------------------------ the PID iteration
\* currentMotorSteps = rawEncoderReading / encoderCountPerStep, a float
\* division: a zero divisor gives an infinity, or a NaN for 0 / 0.
StepsOf(raw, cps) ==
    IF cps = 0 THEN (IF raw > 0 THEN PosInf ELSE IF raw < 0 THEN NegInf ELSE NaN)
    ELSE Fin((raw * StepScale) \div cps)

\* stepPhase: tmp = steps / 4; the fractional part of tmp times 4095 when
\* tmp >= 0, and (1 + tmp - (int) tmp) * 4095 otherwise, stored in a uint16_t.
\* (int) truncates toward zero, so tmp - (int) tmp is in (-1, 0] for tmp < 0.
CycleUnits == StepsPerCycle * StepScale
StepPhaseOf(steps) ==
    IF ~IsFin(steps) THEN UndefinedUint16
    ELSE IF steps.v >= 0
         THEN {((steps.v % CycleUnits) * PhaseScale) \div CycleUnits}
         ELSE {((CycleUnits - ((-steps.v) % CycleUnits)) * PhaseScale) \div CycleUnits}

\* The integral term accumulated without the ceiling.
IntegralUpdateNoCeiling(iTerm, ki, err) == FAdd(iTerm, FMul(Fin(ki), err))

\* if (abs(PIDITerm + Ki * currentError) < 512) PIDITerm += Ki * currentError;
IntegralUpdate(iTerm, ki, err) ==
    IF FLt(FAbs(FAdd(iTerm, FMul(Fin(ki), err))), Fin(IntegralCeiling * TermScale))
    THEN FAdd(iTerm, FMul(Fin(ki), err))
    ELSE iTerm

\* The sum of the terms converted to int16_t without the clamp.
ControlSignalNoClamp(sum) ==
    IF IsFin(sum) THEN {ToInt16(TruncDiv(sum.v, TermScale))} ELSE UndefinedSignal

\* PIDControlSignal = (int16_t) constrain<float>(sumOfTerms, -255, 255)
ControlSignalOf(sum) ==
    IF IsNaN(sum) THEN UndefinedSignal
    ELSE IF FGe(sum, Fin(MaxSignal * TermScale)) THEN {MaxSignal}
    ELSE IF FGe(Fin(-MaxSignal * TermScale), sum) THEN {-MaxSignal}
    ELSE {TruncDiv(sum.v, TermScale)}

\* phaseShift = 4 * PIDControlSignal
PhaseShiftOf(signal) == PhaseShiftPerSignal * signal

\* The phase as line 664 leaves it, without the modulo of line 665.
DesiredStepPhaseNoModulo(sp, shift) ==
    ToUint16(sp + shift + (IF sp < -shift THEN WrapCorrection ELSE 0))

\* desiredStepPhase = stepPhase + phaseShift + ((stepPhase < -phaseShift) * 4095),
\* stored in a uint16_t, then desiredStepPhase % 4096.
DesiredStepPhaseOf(sp, shift) ==
    ToUint16(sp + shift + (IF sp < -shift THEN WrapCorrection ELSE 0)) % PhasePeriod

\* ControlMotorCurrents from state s when the encoder reads `reading`: the
\* states it can end in, one per outcome of the undefined conversions.
ControlMotorCurrents(s, reading) ==
    LET raw == ToInt16(reading)
        cur == StepsOf(raw, s.encoderCountPerStep)
        err == FSub(s.targetMotorSteps, cur)
        read == [s EXCEPT !.rawEncoderReading = raw, !.currentMotorSteps = cur,
                          !.currentError = err]
        p == FMul(Fin(s.Kp), err)
        i == IntegralUpdate(s.PIDITerm, s.Ki, err)
        d == FMul(Fin(s.Kd), FSub(s.lastError, err))
        sum == FAdd(FAdd(p, i), d)
    IN  IF ~s.collectingData /\ FEq(err, Fin(0)) THEN {read}
        ELSE {SetMotorPhase(
                [read EXCEPT !.PIDPTerm = p, !.PIDITerm = i, !.PIDDTerm = d,
                             !.PIDControlSignal = sig,
                             !.phaseShift = PhaseShiftOf(sig),
                             !.stepPhase = sp,
                             !.desiredStepPhase = DesiredStepPhaseOf(sp, PhaseShiftOf(sig)),
                             !.lastError = err],
                DesiredStepPhaseOf(sp, PhaseShiftOf(sig))) :
                  sig \in ControlSignalOf(sum), sp \in StepPhaseOf(cur)}

\* ------------------------------------------------------- sample acquisition
\* The working variables CollectSample can record, in the order of their
\* filter bits 0 .. 12.  The coil currents are not modelled: the commanded
\* phase they are computed from stands for both.
NumSampleVariables == 13
SampleVariable(s, i) ==
    CASE i = 0 -> Fin(s.rawEncoderReading)
      [] i = 1 -> s.currentMotorSteps
      [] i = 2 -> s.targetMotorSteps
      [] i = 3 -> Fin(s.stepPhase)
      [] i = 4 -> Fin(s.PIDControlSignal)
      [] i = 5 -> s.PIDPTerm
      [] i = 6 -> s.PIDITerm
      [] i = 7 -> s.PIDDTerm
      [] i = 8 -> Fin(s.phaseShift)
      [] i = 9 -> Fin(s.desiredStepPhase)
      [] i = 10 -> Fin(s.motorPhase)
      [] i = 11 -> Fin(s.motorPhase)
      [] OTHER -> s.currentError

RECURSIVE SampleFrom(_, _)
SampleFrom(s, i) ==
    IF i >= NumSampleVariables THEN << >>
    ELSE (IF BitSet(s.filterRequested, i) THEN << <<i, SampleVariable(s, i)>> >>
          ELSE << >>)
         \o SampleFrom(s, i + 1)

\* if (sampleBufferWritePointer >= (samplesRequested * variableCount))
CollectionComplete(writePointer, samples, filter) ==
    writePointer >= samples * PopCount(filter)

\* CollectSample: one float per set filter bit is stored at the write
\* cursor; the collection ends when the cursor reaches the requested count.
\* sampleBuffer is modelled by the cells below the write cursor, the only
\* ones that are read.
CollectSample(s) ==
    LET sample == SampleFrom(s, 0)
        wp == s.sampleBufferWritePointer + Len(sample)
        stored == [s EXCEPT !.sampleBuffer = @ \o sample,
                            !.sampleBufferWritePointer = wp,
                            !.acquired = @ \o sample]
    IN  IF CollectionComplete(wp, s.samplesRequested, s.filterRequested)
        THEN [stored EXCEPT !.collectingData = FALSE, !.movementRequested = 0]
        ELSE stored

\* --------------------------------------------------------------- TakeStep
\* targetMotorSteps += (stepDirection ? angle : -angle) * (direction value),
\* angle = 1 / microsteps, or 1 when the driver reports 0 microsteps.
TakeStep ==
    \E microsteps \in {0, 2}, sign \in {-1, 1} :
        LET angle == IF microsteps = 0 THEN StepScale ELSE StepScale \div microsteps
            target == FAdd(targetMotorSteps, Fin(sign * angle))
        IN  /\ ~crashed
            /\ IsFin(target) => AbsInt(target.v) <= MaxTargetSteps * StepScale
            /\ target # targetMotorSteps
            /\ Becomes([Now EXCEPT !.targetMotorSteps = target])

\* ------------------------------------------------------------------- Spin
\* A tick that looks at the request only: tuning errors do not stop control.
SpinDispatchIgnoringErrors(enabled, terr, tun) ==
    IF ~enabled THEN "return"
    ELSE IF tun = {} THEN "control"
    ELSE "give"

\* The Supervisor tick: after the sample, nothing, a wake of the tuning
\* task, or one PID iteration.
SpinDispatch(enabled, terr, tun) ==
    IF ~enabled THEN "return"
    ELSE IF terr # {} THEN "give"
    ELSE IF tun = {} THEN "control"
    ELSE "give"

SpinResults(s0) ==
    LET s == IF s0.collectingData /\ s0.rateRequested = 0 THEN CollectSample(s0) ELSE s0
        what == SpinDispatch(s.closedLoopEnabled, s.tuningError, s.tuning)
    IN  CASE what = "return" -> {s}
          [] what = "give" -> {[s EXCEPT !.tuningTask = Give(@)]}
          [] OTHER ->
              IF s.encoder = "none" THEN {Crash(s)}
              ELSE UNION {ControlMotorCurrents([s EXCEPT !.pidIterations = @ + 1], r) :
                             r \in ReadingsIn(s)}

Spin ==
    /\ ~crashed
    /\ SpinDispatch(closedLoopEnabled, tuningError, tuning) = "control"
          => pidIterations < MaxPidIterations
    /\ \E s \in SpinResults(Now) : Becomes(s)

\* ------------------------------------------------ configuration commands
\* EncoderType: none, linearQuadrature, rotaryQuadrature, as5047, tli5012.
EncoderTypeNumValues == 5
EncoderTypeName(t) ==
    CASE t = 1 -> "linearQuadrature"
      [] t = 2 -> "rotaryQuadrature"
      [] t = 3 -> "as5047"
      [] t = 4 -> "tli5012"
      [] OTHER -> "none"
EncoderTypeNumber(e) ==
    CASE e = "linearQuadrature" -> 1
      [] e = "rotaryQuadrature" -> 2
      [] e = "as5047" -> 3
      [] e = "tli5012" -> 4
      [] OTHER -> 0

PolarityBits(a, b) == (IF a THEN 2 ELSE 0) + (IF b THEN 1 ELSE 0)

\* A parameter of an M569.1 command that is not in c.seen keeps the current
\* value (the "temp" variables start as the current values).
M569Point1Valid(s, c) ==
    LET T == IF "T" \in c.seen THEN c.T ELSE EncoderTypeNumber(s.encoder)
        L == IF "L" \in c.seen THEN c.L
             ELSE PolarityBits(s.coilAPolarity, s.coilBPolarity)
    IN  /\ ~(T > EncoderTypeNumValues)
        /\ ~("E" \in c.seen /\ c.E[1] < 0)
        /\ ~("E" \in c.seen /\ c.E[2] < 0)
        /\ ~(L > 3)

\* ProcessM569Point1 with the re-tune of lines 413-415 made unconditional.
ProcessM569Point1AlwaysRetune(s, c) ==
    LET L == IF "L" \in c.seen THEN c.L
             ELSE PolarityBits(s.coilAPolarity, s.coilBPolarity)
        set == [s EXCEPT
                  !.encoderCountPerStep = IF "C" \in c.seen THEN c.C ELSE @,
                  !.Kp = IF "R" \in c.seen THEN c.R ELSE @,
                  !.Ki = IF "I" \in c.seen THEN c.I ELSE @,
                  !.Kd = IF "D" \in c.seen THEN c.D ELSE @,
                  !.coilAPolarity = (L \div 2) % 2 = 1,
                  !.coilBPolarity = L % 2 = 1,
                  !.errorThresholds = IF "E" \in c.seen THEN c.E ELSE @,
                  !.tuningError = @ \cup TUNE_ERR_NOT_PERFORMED_MINIMAL_TUNE,
                  !.encoder = IF "T" \in c.seen THEN EncoderTypeName(c.T) ELSE @,
                  !.encoderOffset = IF "T" \in c.seen THEN 0 ELSE @,
                  !.lastCommand = [op |-> "M569.1", result |-> "ok"]]
    IN  IF c.seen = {} THEN [s EXCEPT !.lastCommand = [op |-> "M569.1", result |-> "ok"]]
        ELSE IF ~M569Point1Valid(s, c)
             THEN [s EXCEPT !.lastCommand = [op |-> "M569.1", result |-> "error"]]
             ELSE set

\* ProcessM569Point1
ProcessM569Point1(s, c) ==
    LET L == IF "L" \in c.seen THEN c.L
             ELSE PolarityBits(s.coilAPolarity, s.coilBPolarity)
        set == [s EXCEPT
                  !.encoderCountPerStep = IF "C" \in c.seen THEN c.C ELSE @,
                  !.Kp = IF "R" \in c.seen THEN c.R ELSE @,
                  !.Ki = IF "I" \in c.seen THEN c.I ELSE @,
                  !.Kd = IF "D" \in c.seen THEN c.D ELSE @,
                  !.coilAPolarity = (L \div 2) % 2 = 1,
                  !.coilBPolarity = L % 2 = 1,
                  !.errorThresholds = IF "E" \in c.seen THEN c.E ELSE @,
                  !.tuningError = IF "T" \in c.seen \/ "C" \in c.seen
                                  THEN @ \cup TUNE_ERR_NOT_PERFORMED_MINIMAL_TUNE
                                  ELSE @,
                  !.encoder = IF "T" \in c.seen THEN EncoderTypeName(c.T) ELSE @,
                  !.encoderOffset = IF "T" \in c.seen THEN 0 ELSE @,
                  !.lastCommand = [op |-> "M569.1", result |-> "ok"]]
    IN  IF c.seen = {} THEN [s EXCEPT !.lastCommand = [op |-> "M569.1", result |-> "ok"]]
        ELSE IF ~M569Point1Valid(s, c)
             THEN [s EXCEPT !.lastCommand = [op |-> "M569.1", result |-> "error"]]
             ELSE set

\* SetClosedLoopEnabled from line 292 on, whether or not there is an encoder.
SetClosedLoopEnabledUnchecked(s, enabled) ==
    IF s.encoder = "none"
    THEN {Crash([s EXCEPT !.tuningError = TUNE_ERR_NOT_PERFORMED_MINIMAL_TUNE])}
    ELSE {[s EXCEPT !.tuningError = TUNE_ERR_NOT_PERFORMED_MINIMAL_TUNE,
                    !.rawEncoderReading = ToInt16(r),
                    !.currentMotorSteps = StepsOf(ToInt16(r), s.encoderCountPerStep),
                    !.targetMotorSteps = StepsOf(ToInt16(r), s.encoderCountPerStep),
                    !.closedLoopEnabled = enabled,
                    !.lastCommand = [op |-> "SetClosedLoopEnabled", result |-> "true"]] :
             r \in ReadingsIn(s)}

\* SetClosedLoopEnabled
SetClosedLoopEnabled(s, enabled) ==
    IF enabled /\ s.encoder = "none"
    THEN {[s EXCEPT !.lastCommand = [op |-> "SetClosedLoopEnabled", result |-> "false"]]}
    ELSE IF s.encoder = "none"
    THEN {Crash([s EXCEPT !.tuningError = TUNE_ERR_NOT_PERFORMED_MINIMAL_TUNE])}
    ELSE {[s EXCEPT !.tuningError = TUNE_ERR_NOT_PERFORMED_MINIMAL_TUNE,
                    !.rawEncoderReading = ToInt16(r),
                    !.currentMotorSteps = StepsOf(ToInt16(r), s.encoderCountPerStep),
                    !.targetMotorSteps = StepsOf(ToInt16(r), s.encoderCountPerStep),
                    !.closedLoopEnabled = enabled,
                    !.lastCommand = [op |-> "SetClosedLoopEnabled", result |-> "true"]] :
             r \in ReadingsIn(s)}

\* A result that compares against no earlier error: any bit set fails.
TuningResultWithoutWarning(prevTuningError, terr) ==
    IF terr = {} THEN "ok" ELSE "error"

\* The three outcomes of a tuning command.
TuningResult(prevTuningError, terr) ==
    IF terr = {} THEN "ok"
    ELSE IF terr \ prevTuningError = {} THEN "warning"
    ELSE "error"

\* ProcessM569Point6 up to its wait loop: v is the V parameter.
ProcessM569Point6(s, seenV, v) ==
    IF s.driverMode # "direct" \/ ~seenV
    THEN [s EXCEPT !.lastCommand = [op |-> "M569.6", result |-> "error"]]
    ELSE IF v = {}
    THEN [s EXCEPT !.tuning = v,
                   !.lastCommand = [op |-> "M569.6",
                                    result |-> TuningResult(s.tuningError, s.tuningError)]]
    ELSE [s EXCEPT !.tuning = v,
                   !.commandTask = [pc |-> "tuning", prevTuningError |-> s.tuningError,
                                    desiredTuning |-> v],
                   !.lastCommand = [op |-> "M569.6", result |-> "pending"]]

\* while (tuning) { tuningTask->Give(); } and the return that follows.
ProcessM569Point6Wait(s) ==
    IF s.tuning # {} THEN [s EXCEPT !.tuningTask = Give(@)]
    ELSE [s EXCEPT !.commandTask = CommandIdle,
                   !.lastCommand =
                       [op |-> "M569.6",
                        result |-> TuningResult(s.commandTask.prevTuningError,
                                                s.tuningError)]]

\* rawEncoderReading = encoder->GetReading();
\* currentMotorSteps = rawEncoderReading / encoderCountPerStep; stepPhase = ...
Measure(s, reading) ==
    LET raw == ToInt16(reading)
        cur == StepsOf(raw, s.encoderCountPerStep)
    IN  {[s EXCEPT !.rawEncoderReading = raw, !.currentMotorSteps = cur,
                   !.stepPhase = sp] : sp \in StepPhaseOf(cur)}

\* ------------------------------------------------------- the tuning task
TuneLocal(s, name, value) == [s EXCEPT !.tuningTask.l[name] = value]
TuneAt(s, pc) == [s EXCEPT !.tuningTask.pc = pc]

\* The coil polarities of combination coilPhase.
CoilPhasePolarity(s, coilPhase) ==
    [s EXCEPT !.coilAPolarity = (coilPhase \div 2) % 2 = 1,
              !.coilBPolarity = coilPhase % 2 = 1]

\* The start of the sweep of one polarity combination: the motor answers
\* this combination in one of the three ways.
EnterCoilPhase(s, coilPhase) ==
    {SetMotorPhase(
        [CoilPhasePolarity(TuneLocal(TuneLocal(s, "coilPhase", coilPhase),
                                     "totalError", 0), coilPhase)
            EXCEPT !.desiredStepPhase = 0, !.plant = mode],
        0) : mode \in PlantModes}

EnterPolarityDetection(s) ==
    {TuneAt(t, "detect") :
        t \in EnterCoilPhase(TuneLocal(TuneLocal(s, "correctCoilPhase", 0),
                                       "correctCoilPhaseError", 0), 0)}

\* Ease the motor from 4096 down to 0: the first pass of the loop halves
\* 4096 * 2 and commands phase 4096.
EnterZeroing(s) ==
    {TuneAt(SetMotorPhase([s EXCEPT !.desiredStepPhase = PhasePeriod, !.plant = mode],
                          PhasePeriod), "zero") : mode \in PlantModes}

\* const int max_err = 5 * (1024 / encoderCountPerStep);
MaxErrOf(cps) ==
    IF cps = 0 THEN UndefinedInt ELSE {TruncDiv(5 * 1024, cps)}

EnterPolarityCheck(s) ==
    {TuneAt(SetMotorPhase(
               [TuneLocal(TuneLocal(s, "max_err", m), "deviations", 0)
                   EXCEPT !.desiredStepPhase = 0, !.plant = mode], 0), "check") :
        m \in MaxErrOf(s.encoderCountPerStep), mode \in PlantModes}

\* The four manoeuvres clearing their bits in tuning only.
StubManoeuvresKeepingErrors(s) ==
    [s EXCEPT
       !.tuning = @ \ {CONTROL_CHECK, ENCODER_STEPS_CHECK,
                       CONTINUOUS_PHASE_INCREASE_MANOEUVRE, STEP_MANOEUVRE}]

\* The control check, the encoder steps check, the continuous phase
\* increase and the step manoeuvre do nothing but clear their bits.
StubManoeuvres(s) ==
    [s EXCEPT
       !.tuning = @ \ {CONTROL_CHECK, ENCODER_STEPS_CHECK,
                       CONTINUOUS_PHASE_INCREASE_MANOEUVRE, STEP_MANOEUVRE},
       !.tuningError =
           @ \ ((IF CONTROL_CHECK \in s.tuning
                 THEN {TUNE_ERR_NOT_CHECKED_CONTROL} ELSE {})
                \cup (IF ENCODER_STEPS_CHECK \in s.tuning
                      THEN {TUNE_ERR_NOT_CHECKED_ENCODER_STEPS} ELSE {}))]

\* Platform::DriveEnableOverride(false); TaskBase::Take();
EndOfPass(s) == TuneAt(s, "await")

\* ------------------------------------------- the Ziegler-Nichols search
\* A trial runs for at most TrialTicks ticks (16384 in the firmware); the
\* search starts on [0, 10000] and ends when the interval is no wider than 100.
TrialTicks == 32
InitialUpperBound == 10000
SearchThreshold == 100
TargetOffset == 10
MinOscillations == 5
SustainedOscillations == 10

ZN(s) == s.tuningTask.l.zn
SetZN(s, zn) == [s EXCEPT !.tuningTask.l.zn = zn]

\* The end of the search without the restore of the gains.
FinishSearchKeepingGains(s) ==
    [s EXCEPT !.ultimateGain = ZN(s).upperBound,
              !.tuning = @ \ {ZIEGLER_NICHOLS_MANOEUVRE}]

\* ultimateGain = upperBound; Kp, Ki, Kd restored; the bit is cleared.
FinishSearch(s) ==
    [s EXCEPT !.ultimateGain = ZN(s).upperBound,
              !.Kp = ZN(s).prevKp, !.Ki = ZN(s).prevKi, !.Kd = ZN(s).prevKd,
              !.tuning = @ \ {ZIEGLER_NICHOLS_MANOEUVRE}]

\* The head of while (upperBound - lowerBound > 100): the next trial starts
\* with Kp at the midpoint and the target 10 steps away, or the search ends.
NextTrial(s) ==
    LET zn == ZN(s)
    IN  IF zn.upperBound - zn.lowerBound > SearchThreshold * GainScale
        THEN TuneAt(
                SetZN([s EXCEPT
                         !.Kp = zn.lowerBound + (zn.upperBound - zn.lowerBound) \div 2,
                         !.targetMotorSteps =
                             FAdd(s.currentMotorSteps,
                                  Fin(zn.direction * TargetOffset * StepScale))],
                      [zn EXCEPT !.direction = -zn.direction,
                                 !.time = 0, !.initialRiseTime = 0,
                                 !.peakError = Fin(0), !.prevPeakError = Fin(0),
                                 !.prevTimestamp = 0, !.oscillationCount = 0,
                                 !.ewmaDecayFraction = Ratio(0, 1),
                                 !.ewmaOscillationPeriod = Ratio(0, 1)]),
                "search")
        ELSE EndOfPass(FinishSearch(s))

\* The gains are saved and zeroed, the integral term and the ultimate gain
\* are reset.
EnterSearch(s) ==
    NextTrial(
       SetZN([s EXCEPT !.Kp = 0, !.Ki = 0, !.Kd = 0, !.PIDITerm = Fin(0),
                       !.ultimateGain = 0],
             [NoSearch EXCEPT !.prevKp = s.Kp, !.prevKi = s.Ki, !.prevKd = s.Kd,
                              !.upperBound = InitialUpperBound * GainScale]))

\* continue, or the end of the loop body: the next tick of the trial, or
\* the next trial when the trial has run out of ticks.
NextTick(s) ==
    IF ZN(s).time + 1 < TrialTicks
    THEN SetZN(s, [ZN(s) EXCEPT !.time = @ + 1])
    ELSE NextTrial(s)

\* The bookkeeping of one crossing of the target (peakError > 0).
Crossing(zn) ==
    LET decayFraction == RatioOf(zn.peakError, zn.prevPeakError)
        since == Ratio(zn.time - zn.prevTimestamp, 1)
        decay == IF RatioIsZero(zn.ewmaDecayFraction) THEN decayFraction
                 ELSE RatioMean(7, zn.ewmaDecayFraction, 3, decayFraction)
        period == IF zn.oscillationCount > MinOscillations
                  THEN (IF RatioIsZero(zn.ewmaOscillationPeriod) THEN since
                        ELSE RatioMean(3, zn.ewmaOscillationPeriod, 7, since))
                  ELSE zn.ewmaOscillationPeriod
        measured == IF FLt(Fin(0), zn.prevPeakError)
                    THEN [zn EXCEPT !.ewmaDecayFraction = decay,
                                    !.ewmaOscillationPeriod = period]
                    ELSE zn
    IN  [measured EXCEPT !.oscillationCount = @ + 1,
                         !.prevPeakError = zn.peakError,
                         !.peakError = Fin(0),
                         !.prevTimestamp = zn.time]

\* A ratio written into a float PID term, to the resolution of the grid.
RatioTerm(x) ==
    IF x.k = "nan" THEN NaN
    ELSE IF x.d = 0 THEN PosInf
    ELSE Fin((x.n * TermScale) \div x.d)

\* The body of the trial loop after ControlMotorCurrents has run.
TrialStep(s) ==
    LET zn == ZN(s)
        currentPosition == FMul(Fin(zn.direction), s.currentMotorSteps)
        targetPosition == FMul(Fin(zn.direction), s.targetMotorSteps)
        error == FAbs(FSub(currentPosition, targetPosition))
        above == FLt(targetPosition, currentPosition)
        risen == IF zn.initialRiseTime = 0 /\ above
                 THEN [zn EXCEPT !.initialRiseTime = zn.time] ELSE zn
        crossed == IF FLt(Fin(0), risen.peakError) THEN Crossing(risen) ELSE risen
        timed == [s EXCEPT
                    !.tuningTask.l.zn = crossed,
                    !.PIDPTerm = RatioTerm(crossed.ewmaOscillationPeriod),
                    !.PIDDTerm = Fin((zn.time - crossed.prevTimestamp) * TermScale)]
    IN  IF zn.initialRiseTime = 0 /\ ~above THEN NextTick(s)
        ELSE IF zn.time < 3 * risen.initialRiseTime THEN NextTick(SetZN(s, risen))
        ELSE IF above
        THEN NextTick(SetZN(s, [risen EXCEPT !.peakError =
                                   IF FLt(risen.peakError, error) THEN error ELSE @]))
        ELSE IF crossed.oscillationCount < MinOscillations THEN NextTick(timed)
        ELSE IF RatioLt(crossed.ewmaDecayFraction, 98, 100)
        THEN NextTrial(SetZN(timed, [crossed EXCEPT !.lowerBound = s.Kp]))
        ELSE IF crossed.oscillationCount >= SustainedOscillations
        THEN NextTrial(SetZN([timed EXCEPT !.oscillationPeriod =
                                               crossed.ewmaOscillationPeriod],
                             [crossed EXCEPT !.upperBound = s.Kp]))
        ELSE IF zn.time = TrialTicks - 1
        THEN NextTick(SetZN(timed, [crossed EXCEPT !.lowerBound = s.Kp]))
        ELSE NextTick(timed)

\* One tick of a trial: TaskBase::Take(10), ControlMotorCurrents, the body.
SearchStep(s0, reading) ==
    {TrialStep(s) :
        s \in ControlMotorCurrents([s0 EXCEPT !.pidIterations = @ + 1], reading)}

\* The manoeuvres run in a fixed order in one pass of the loop; after the
\* manoeuvre `done` the task goes on to the next requested one and stops at
\* its first wait.
ManoeuvreRank(m) ==
    CASE m = "start" -> 0
      [] m = "detect" -> 1
      [] m = "zero" -> 2
      [] OTHER -> 3

TuningProceed(s, done) ==
    IF ManoeuvreRank(done) < 1 /\ POLARITY_DETECTION_MANOEUVRE \in s.tuning
    THEN EnterPolarityDetection(s)
    ELSE IF ManoeuvreRank(done) < 2 /\ ZEROING_MANOEUVRE \in s.tuning
    THEN EnterZeroing(s)
    ELSE IF ManoeuvreRank(done) < 3 /\ POLARITY_CHECK \in s.tuning
    THEN EnterPolarityCheck(s)
    ELSE IF ZIEGLER_NICHOLS_MANOEUVRE \in s.tuning
    THEN {EnterSearch(StubManoeuvres(s))}
    ELSE {EndOfPass(StubManoeuvres(s))}

\* while (!tuning) { Take(); } ... the direct-mode check ...
\* while (UpdatePending(0)) { Take(10); }
TuningWake(s) ==
    LET taken == [s EXCEPT !.tuningTask.notified = FALSE, !.tuningTask.l = TuningLocals]
    IN  IF s.tuning = {} THEN taken
        ELSE IF s.driverMode # "direct"
        THEN TuneAt([taken EXCEPT !.tuningError = @ \cup {TUNE_ERR_SYSTEM_ERROR},
                                  !.tuning = {}], "start")
        ELSE TuneAt(taken, "start")

\* The circular distance of the measured from the commanded phase, as the
\* polarity detection computes it in int16_t.
DetectionDistance(sp, dsp) ==
    MinInt(ToInt16(AbsInt(sp - dsp)),
           ToInt16(AbsInt(PhaseScale - MaxInt(sp, dsp) + MinInt(sp, dsp))))

\* The comparison with <= in place of <: the last of equal totals wins.
BetterLastWins(coilPhase, totalError, correctError) ==
    coilPhase = 0 \/ totalError <= correctError

\* if (coilPhase == 0 || totalError < correctCoilPhaseError)
Better(coilPhase, totalError, correctError) ==
    coilPhase = 0 \/ totalError < correctError

\* One step of the polarity detection sweep, from the wait after
\* SetMotorPhase to the next wait.
DetectionStep(s0, reading) ==
    UNION {
      LET l == s.tuningTask.l
          total == l.totalError + DetectionDistance(s.stepPhase, s.desiredStepPhase)
          dsp == s.desiredStepPhase + SweepIncrement
          better == Better(l.coilPhase, total, l.correctCoilPhaseError)
          correct == IF better THEN l.coilPhase ELSE l.correctCoilPhase
          swept == [s EXCEPT !.desiredStepPhase = dsp,
                             !.tuningTask.l.totalError = total]
          judged == [swept EXCEPT
                       !.tuningTask.l.correctCoilPhase = correct,
                       !.tuningTask.l.correctCoilPhaseError =
                           IF better THEN total ELSE @,
                       !.tuningTask.l.totals[l.coilPhase + 1] = total]
      IN  IF dsp < PhasePeriod THEN {SetMotorPhase(swept, dsp)}
          ELSE IF l.coilPhase + 1 < 4 THEN EnterCoilPhase(judged, l.coilPhase + 1)
          ELSE TuningProceed(
                  [CoilPhasePolarity(judged, correct) EXCEPT
                      !.tuning = @ \ {POLARITY_DETECTION_MANOEUVRE},
                      !.tuningError = @ \ {TUNE_ERR_NOT_FOUND_POLARITY}],
                  "detect")
      : s \in Measure(s0, reading)}

\* A ramp that quarters the phase.
NextRampPhaseQuartering(dsp) == IF dsp > 1 THEN dsp \div 4 ELSE 0

\* The next phase of the zeroing ramp: half the phase, and 0 after 1.
NextRampPhase(dsp) == IF dsp > 1 THEN dsp \div 2 ELSE 0

\* One step of the zeroing ramp.  After the last one the raw reading
\* becomes the encoder's zero.
ZeroingStep(s0, reading, reading2) ==
    LET read == [s0 EXCEPT !.rawEncoderReading = ToInt16(reading)]
        s == IF read.collectingData /\ read.rateRequested = 0
             THEN CollectSample(read) ELSE read
    IN  IF s.desiredStepPhase > 0
        THEN {SetMotorPhase([s EXCEPT !.desiredStepPhase = NextRampPhase(@)],
                            NextRampPhase(s.desiredStepPhase))}
        ELSE UNION {
               TuningProceed(
                  [m EXCEPT !.encoderOffset = @ - m.rawEncoderReading,
                            !.targetMotorSteps = Fin(0),
                            !.tuning = @ \ {ZEROING_MANOEUVRE},
                            !.tuningError = @ \ {TUNE_ERR_NOT_ZEROED}],
                  "zero")
               : m \in Measure(s, reading2)}

\* A point counted when either of the two distances exceeds max_err.
DeviatesEitherWay(sp, dsp, max_err) ==
    \/ AbsInt(ToInt16(sp - dsp)) > max_err
    \/ AbsInt(ToInt16(PhaseScale - MaxInt(sp, dsp) + MinInt(sp, dsp))) > max_err

\* if (abs(distance1) > max_err && abs(distance2) > max_err) deviations++;
Deviates(sp, dsp, max_err) ==
    /\ AbsInt(ToInt16(sp - dsp)) > max_err
    /\ AbsInt(ToInt16(PhaseScale - MaxInt(sp, dsp) + MinInt(sp, dsp))) > max_err

MaxDeviations == 10

\* One step of the polarity check sweep.
CheckStep(s0, reading) ==
    UNION {
      LET l == s.tuningTask.l
          deviations == l.deviations
                        + (IF Deviates(s.stepPhase, s.desiredStepPhase, l.max_err)
                           THEN 1 ELSE 0)
          dsp == s.desiredStepPhase + SweepIncrement
          swept == [s EXCEPT !.desiredStepPhase = dsp,
                             !.tuningTask.l.deviations = deviations]
      IN  IF dsp < PhasePeriod THEN {SetMotorPhase(swept, dsp)}
          ELSE TuningProceed(
                  [swept EXCEPT
                      !.tuning = @ \ {POLARITY_CHECK},
                      !.tuningError =
                          (@ \cup (IF deviations > MaxDeviations
                                   THEN {TUNE_ERR_INCORRECT_POLARITY} ELSE {}))
                          \ {TUNE_ERR_NOT_CHECKED_POLARITY}],
                  "check")
      : s \in Measure(s0, reading)}

\* One step of the tuning task, from one suspension point to the next; the
\* timed waits (TaskBase::Take(10)) take a notification that is pending.
TuningLoopStep(s0) ==
    LET s == [s0 EXCEPT !.tuningTask.notified = FALSE]
    IN
    CASE s.tuningTask.pc = "await" -> {TuningWake(s)}
      [] s.tuningTask.pc = "start" -> TuningProceed(s, "start")
      [] s.encoder = "none" -> {Crash(s)}
      [] s.tuningTask.pc = "detect" ->
             UNION {DetectionStep(s, r) : r \in ReadingsIn(s)}
      [] s.tuningTask.pc = "zero" ->
             UNION {ZeroingStep(s, r, r2) : r \in ReadingsIn(s), r2 \in ReadingsIn(s)}
      [] s.tuningTask.pc = "check" ->
             UNION {CheckStep(s, r) : r \in ReadingsIn(s)}
      [] OTHER ->
             UNION {SearchStep(s, r) : r \in ReadingsIn(s)}

TuningLoop ==
    /\ ~crashed
    /\ tuningTask.pc = "await" => tuningTask.notified
    /\ tuningTask.pc = "search"
          => \/ pidIterations < MaxPidIterations
             \/ plant \in {"ring", "still"} /\ pidIterations < MaxSearchTicks
    /\ \E s \in TuningLoopStep(Now) : Becomes(s)

\* ------------------------------------------------------- data collection
\* An integer division; a zero divisor gives quotient 0 on the Cortex-M
\* (where it does not trap, which is modelled as a fault by the callers).
Quotient(a, b) == IF b = 0 THEN 0 ELSE a \div b

\* rateRequested = (1000.0 / msg.rate) / portTICK_PERIOD_MS in a uint16_t:
\* the tick period is 1 ms; rate 0 gives an infinity, whose conversion is
\* undefined.
RateRequestedOf(rate) ==
    IF rate = 0 THEN UndefinedUint16 ELSE {ToUint16(TicksPerSecond \div rate)}

\* The capacity check of a request, made when msg.rate == 0 only.
ExceedsCapacity(msg) ==
    /\ msg.rate = 0
    /\ msg.numSamples > Quotient(BufferCapacity, PopCount(msg.filter))

\* The reply to a request, with the request it answers and the target
\* position at the time of the request.
Reply(s, msg, result) ==
    [s EXCEPT !.lastCommand =
        [op |-> "StartDataCollection", result |-> result, msg |-> msg,
         target |-> s.targetMotorSteps]]

\* StartDataCollection
StartDataCollection(s, msg) ==
    IF msg.deviceNumber # 0 \/ s.encoder = "none"
    THEN {Reply(s, msg, "error: not in closed loop mode")}
    ELSE IF s.collectingData
    THEN {Reply(s, msg, "error: already collecting")}
    ELSE (IF msg.rate = 0 /\ PopCount(msg.filter) = 0 THEN {Crash(s)} ELSE {})
         \cup
         (IF ExceedsCapacity(msg)
          THEN {Reply(s, msg, "error: maximum samples")}
          ELSE IF ~msg.movementInRange
          THEN {Reply(s, msg, "error: invalid movement")}
          ELSE {Reply([s EXCEPT !.collectingData = TRUE,
                                !.rateRequested = rate,
                                !.filterRequested = msg.filter,
                                !.tuning = @ \cup msg.movement,
                                !.samplesRequested = msg.numSamples,
                                !.modeRequested = msg.mode,
                                !.dataCollectionTask = Give(@)],
                      msg, "ok") :
                   rate \in RateRequestedOf(msg.rate)})

\* ------------------------------------------------- the transmission task
\* if (!collectingData) { both cursors = 0 }: the packets of the batch and
\* the record of what was acquired start afresh with the buffer.
ResetBuffer(s) ==
    [s EXCEPT !.sampleBufferReadPointer = 0, !.sampleBufferWritePointer = 0,
              !.sampleBuffer = << >>, !.acquired = << >>, !.packets = NoPackets]
TransmissionReset(s) == IF ~s.collectingData THEN ResetBuffer(s) ELSE s

\* One packet of the drain: the control fields, the floats from the read
\* cursor on, and CanInterface::Send.
TransmitPacket(s) ==
    LET variableCount == s.dataTransmissionTask.variableCount
        maxSamplesInPacket == s.dataTransmissionTask.maxSamplesInPacket
        readPointer == s.sampleBufferReadPointer
        samplesRemaining ==
            Quotient(s.sampleBufferWritePointer - readPointer, variableCount)
        lastPacket == samplesRemaining <= maxSamplesInPacket
        numSamples == IF lastPacket THEN samplesRemaining ELSE maxSamplesInPacket
        msg == [kind |-> "drain",
                firstSampleNumber |-> Quotient(readPointer, variableCount),
                filter |-> s.filterRequested,
                lastPacket |-> lastPacket,
                numSamples |-> numSamples,
                data |-> SubSeq(s.sampleBuffer, readPointer + 1,
                                readPointer + numSamples * variableCount)]
    IN  [s EXCEPT !.sampleBufferReadPointer = readPointer + numSamples * variableCount,
                  !.packets = [last |-> msg,
                               floats |-> @.floats \o msg.data,
                               samples |-> @.samples + numSamples],
                  !.dataTransmissionTask.pc = "sending"]

\* while (sampleBufferReadPointer < sampleBufferWritePointer) { ... }: the
\* next packet, or the end of the loop.  The three tasks have the same
\* priority and nothing locks the buffer, so a task that becomes ready can
\* run between the end of the loop and the test of collectingData.
DrainLoop(s) ==
    IF s.sampleBufferReadPointer < s.sampleBufferWritePointer
    THEN TransmitPacket(s)
    ELSE [s EXCEPT !.dataTransmissionTask.pc = "drained"]

\* One step of the transmission task: from TaskBase::Take(100), from
\* CanInterface::Send, or from the end of the drain loop.
DataTransmissionLoopStep(s) ==
    IF s.dataTransmissionTask.pc = "sending" THEN {DrainLoop(s)}
    ELSE IF s.dataTransmissionTask.pc = "drained"
    THEN {[TransmissionReset(s) EXCEPT !.dataTransmissionTask = TransmissionIdle]}
    ELSE IF ~s.collectingData /\ s.sampleBufferWritePointer > 0
    THEN (IF PopCount(s.filterRequested) = 0 THEN {Crash(s)} ELSE {})
         \cup
         {DrainLoop([s EXCEPT
             !.dataTransmissionTask.variableCount = PopCount(s.filterRequested),
             !.dataTransmissionTask.maxSamplesInPacket =
                 Quotient(MaxFloatsInPacket, PopCount(s.filterRequested))])}
    ELSE {s}

\* --------------------------------------------------- the collection task
\* One packet of a timed collection: sample i, the current values of the
\* requested variables.
StreamPacket(s, i) ==
    [s EXCEPT !.packets.last = [kind |-> "stream",
                                firstSampleNumber |-> i,
                                filter |-> s.filterRequested,
                                lastPacket |-> (i = s.samplesRequested - 1),
                                numSamples |-> 1,
                                data |-> SampleFrom(s, 0)],
              !.dataCollectionTask.i = i,
              !.dataCollectionTask.pc = "stream"]

\* for (int i = 0; i < samplesRequested; i++) { send; vTaskDelayUntil }, then
\* collectingData = false and the wait for the next request.
StreamLoop(s, i) ==
    IF i < s.samplesRequested THEN StreamPacket(s, i)
    ELSE [s EXCEPT !.collectingData = FALSE,
                   !.dataCollectionTask.pc = "await", !.dataCollectionTask.i = 0]

\* while (modeRequested == OnNextMove && startRecordingTrigger == targetMotorSteps)
AwaitMove(s) ==
    IF s.modeRequested = "OnNextMove"
       /\ FEq(s.dataCollectionTask.trigger, s.targetMotorSteps)
    THEN [s EXCEPT !.dataCollectionTask.pc = "trigger"]
    ELSE StreamLoop(s, 0)

\* One step of the collection task, from one suspension point to the next.
DataCollectionLoopStep(s) ==
    CASE s.dataCollectionTask.pc = "await" ->
             LET taken == [s EXCEPT !.dataCollectionTask.notified = FALSE]
             IN  IF ~s.collectingData \/ s.rateRequested = 0 THEN taken
                 ELSE AwaitMove([taken EXCEPT !.dataCollectionTask.trigger =
                                                  s.targetMotorSteps])
      [] s.dataCollectionTask.pc = "trigger" -> AwaitMove(s)
      [] OTHER -> StreamLoop(s, s.dataCollectionTask.i + 1)

\* ---------------------------------------------------------------- actions
\* Nothing runs after a fault.  A command is taken when the task that
\* processes commands is not inside one.
CommandReady == ~crashed /\ commandTask.pc = "ready" /\ commandCount < MaxCommands
Counted(s) == [s EXCEPT !.commandCount = @ + 1]

\* GetDriverMode(0): the driver is put into or out of direct mode.  The mode
\* is read when a tuning command arrives and when the tuning task wakes.
SetDriverMode ==
    /\ ~crashed
    /\ tuningTask.pc = "await"
    /\ \E mode \in {"direct", "stealthChop"} :
          /\ mode # driverMode
          /\ Becomes([Now EXCEPT !.driverMode = mode])

Configure(commands) ==
    /\ CommandReady
    /\ \E c \in commands : Becomes(ProcessM569Point1(Counted(Now), c))

Enable ==
    /\ CommandReady
    /\ \E enabled \in BOOLEAN :
          \E s \in SetClosedLoopEnabled(Counted(Now), enabled) : Becomes(s)

Tune(movements) ==
    /\ CommandReady
    /\ \E seenV \in BOOLEAN, v \in movements :
          Becomes(ProcessM569Point6(Counted(Now), seenV, v))

TuneWait ==
    /\ ~crashed
    /\ commandTask.pc = "tuning"
    /\ Becomes(ProcessM569Point6Wait(Now))

Collect(requests) ==
    /\ CommandReady
    /\ \E msg \in requests :
          \E s \in StartDataCollection(Counted(Now), msg) : Becomes(s)

DataTransmissionLoop ==
    /\ ~crashed
    /\ \E s \in DataTransmissionLoopStep(Now) : Becomes(s)

DataCollectionLoop ==
    /\ ~crashed
    /\ dataCollectionTask.pc = "await" => dataCollectionTask.notified
    /\ Becomes(DataCollectionLoopStep(Now))

\* ------------------------------------------------------ command parameters
NoParameters ==
    [seen |-> {}, T |-> 0, C |-> 0, R |-> 0, I |-> 0, D |-> 0, E |-> <<0, 0>>, L |-> 0]

\* M569.1 T2 C16: a rotary quadrature encoder with 16 counts per step, and
\* commands with a value out of range: the first encoder type that is not
\* one of the NumValues types and the one after it, a coil polarity of 4,
\* a negative error threshold; and M569.1 E1:1, thresholds alone.
EncoderCommands ==
    {[NoParameters EXCEPT !.seen = {"T", "C"}, !.T = 2, !.C = TrueCountsPerStep],
     [NoParameters EXCEPT !.seen = {"T"}, !.T = EncoderTypeNumValues],
     [NoParameters EXCEPT !.seen = {"T"}, !.T = EncoderTypeNumValues + 1],
     [NoParameters EXCEPT !.seen = {"L"}, !.L = 4],
     [NoParameters EXCEPT !.seen = {"E"}, !.E = <<-1, 0>>],
     [NoParameters EXCEPT !.seen = {"E"}, !.E = <<1, 1>>]}

\* The manoeuvres of a minimal tune.
MinimalTune ==
    {POLARITY_DETECTION_MANOEUVRE, ZEROING_MANOEUVRE, POLARITY_CHECK, CONTROL_CHECK,
     ENCODER_STEPS_CHECK}

\* ------------------------------------------------- the tuning specification
\* The drive from power-up through encoder configuration, enabling and the
\* tuning manoeuvres, with every response of the motor.

NextTune ==
    \/ Configure(EncoderCommands)
    \/ Enable
    \/ Tune({MinimalTune, {POLARITY_DETECTION_MANOEUVRE}})
    \/ TuneWait
    \/ Spin
    \/ TuningLoop
    \/ SetDriverMode

SpecTune == Init /\ [][NextTune]_vars

\* The same with the scheduling the tasks get: the tuning task runs when it
\* has been given or is inside a manoeuvre, the caller of the tuning command
\* keeps giving, and the Supervisor keeps ticking.
SpecTuneFair ==
    SpecTune /\ WF_vars(TuningLoop) /\ WF_vars(TuneWait) /\ WF_vars(Spin)
\* ----------------------------------------------- the control specification
\* The state the minimal tune leaves (reached in SpecTune): encoder
\* configured, closed loop enabled, no tuning error, the last sweep ended.
\* From there the motor is moved by its load, steps are requested, the
\* gains are changed and the Ziegler-Nichols search is run.
TunedState ==
    [InitialState EXCEPT
       !.closedLoopEnabled = TRUE, !.tuningError = {},
       !.encoder = "rotaryQuadrature", !.encoderCountPerStep = TrueCountsPerStep,
       !.rawEncoderReading = PlantPosition("follow", PhasePeriod - SweepIncrement),
       !.currentMotorSteps =
           StepsOf(PlantPosition("follow", PhasePeriod - SweepIncrement),
                   TrueCountsPerStep),
       !.stepPhase = 3839, !.desiredStepPhase = PhasePeriod,
       !.motorPhase = PhasePeriod - SweepIncrement,
       !.lastCommand = [op |-> "M569.6", result |-> "ok"],
       !.plant = "free"]


GainCommands ==
    {[NoParameters EXCEPT !.seen = {"R", "I", "D"}, !.R = r, !.I = i, !.D = i \div 30] :
        r \in {100 * GainScale}, i \in {0, 300 * GainScale}}

NextPID ==
    \/ Spin
    \/ TakeStep
    \/ Configure(GainCommands)
    \/ Tune({{ZIEGLER_NICHOLS_MANOEUVRE}})
    \/ TuneWait
    \/ TuningLoop

SpecPID == StartsAs(TunedState) /\ [][NextPID]_vars

\* ------------------------------------------- the phase-shift specification
\* The last part of a PID iteration, from every measured phase and a range
\* of control signals: desiredStepPhase is computed from stepPhase and
\* phaseShift and handed to SetMotorPhase.
InitPhase ==
    \E sp \in 0 .. PhaseScale, signal \in {-255, -254, -129, -128, -2, -1, 0, 1, 2, 128, 129, 254, 255} :
        StartsAs([TunedState EXCEPT !.stepPhase = sp,
                                    !.PIDControlSignal = signal,
                                    !.phaseShift = PhaseShiftOf(signal)])

ApplyPhaseShift ==
    /\ pidIterations = 0
    /\ Becomes(SetMotorPhase(
                 [Now EXCEPT !.desiredStepPhase = DesiredStepPhaseOf(stepPhase, phaseShift),
                             !.pidIterations = 1],
                 DesiredStepPhaseOf(stepPhase, phaseShift)))

SpecPhase == InitPhase /\ [][ApplyPhaseShift]_vars

\* ------------------------------------------ the data collection specification
\* The drive with its encoder configured and closed loop enabled but not
\* tuned; requests to collect data arrive, the Supervisor ticks, the
\* collection, transmission and tuning tasks run.
EncoderConfigured ==
    ProcessM569Point1(InitialState,
        [NoParameters EXCEPT !.seen = {"T", "C"}, !.T = 2, !.C = TrueCountsPerStep])


\* Filter masks: targetMotorSteps; all variables but targetMotorSteps.
FilterTarget == 2^2
FilterTwelve == 2^NumSampleVariables - 1 - 2^2

Request(rate, filter, numSamples) ==
    [deviceNumber |-> 0, rate |-> rate, filter |-> filter, numSamples |-> numSamples,
     movement |-> {}, movementInRange |-> TRUE, mode |-> "Immediate"]

\* Two samples of one variable and of two, buffered and timed, a request
\* that runs the zeroing manoeuvre, and requests for another device and for
\* an unknown manoeuvre.
DataRequests ==
    {Request(2 * TicksPerSecond, FilterTarget, 2),
     Request(2 * TicksPerSecond, FilterTarget + 2^3, 2),
     Request(TicksPerSecond, FilterTarget, 2),
     [Request(2 * TicksPerSecond, FilterTarget, 2) EXCEPT !.movement = {ZEROING_MANOEUVRE}],
     [Request(2 * TicksPerSecond, FilterTarget, 2) EXCEPT !.deviceNumber = 1],
     [Request(2 * TicksPerSecond, FilterTarget, 2) EXCEPT !.movementInRange = FALSE]}

NextData ==
    \/ Collect(DataRequests)
    \/ Spin
    \/ DataTransmissionLoop
    \/ DataCollectionLoop
    \/ TuningLoop

SpecData ==
    /\ \E s \in SetClosedLoopEnabled(EncoderConfigured, TRUE) : StartsAs(s)
    /\ [][NextData]_vars

\* The same with the three tasks scheduled fairly: the Supervisor keeps
\* ticking, and the collection and the transmission task run when they
\* have something to do.
SpecDataFair ==
    /\ SpecData
    /\ WF_vars(Spin) /\ WF_vars(DataCollectionLoop) /\ WF_vars(DataTransmissionLoop)

\* ------------------------------------------------ the capacity specification
\* The drive with its encoder configured and closed loop disabled; the
\* requests are at the capacity of the buffer and one sample over it, at
\* rate 0 and at a rate above 1000 per second.

CapacityRequests ==
    {Request(0, FilterTwelve, BufferCapacity \div 12),
     Request(0, FilterTwelve, BufferCapacity \div 12 + 1),
     Request(0, 2^0 + 2^1 + 2^3 + 2^4 + 2^5 + 2^6, BufferCapacity \div 6 + 1),
     Request(2 * TicksPerSecond, FilterTwelve, BufferCapacity \div 12 + 1),
     Request(TicksPerSecond, FilterTwelve, BufferCapacity \div 12 + 1)}

NextCapacity ==
    \/ Collect(CapacityRequests)
    \/ Spin
    \/ DataTransmissionLoop
    \/ DataCollectionLoop

SpecCapacity == StartsAs(EncoderConfigured) /\ [][NextCapacity]_vars

\* ------------------------------------------- the configuration specification
\* The drive from power-up under configuration commands, among them M569.1
\* C0 and M569.1 T2 without C, and the switching of closed loop, while the
\* Supervisor ticks and steps are commanded.
CountCommands ==
    EncoderCommands \cup {[NoParameters EXCEPT !.seen = {"C"}, !.C = 0],
                          [NoParameters EXCEPT !.seen = {"T"}, !.T = 2]}

SpecConfigure == Init /\ [][Configure(CountCommands) \/ Enable \/ Spin \/ TakeStep]_vars

\* -------------------------------------------------- the search specification
\* The tuned drive under the Ziegler-Nichols search with a motor that rings
\* about every target by one step without decay, and with a motor that does
\* not move at all.
NextSearch ==
    \/ Configure(GainCommands)
    \/ Tune({{ZIEGLER_NICHOLS_MANOEUVRE}})
    \/ TuneWait
    \/ Spin
    \/ TuningLoop

SpecSearch ==
    /\ \E response \in {"ring", "still"} : StartsAs([TunedState EXCEPT !.plant = response])
    /\ [][NextSearch]_vars

\* ------------------------------------------------ the command specification
\* The tuned drive with closed loop enabled while commands of every kind
\* arrive: closed loop is switched, a manoeuvre is requested by a tuning
\* command or with a data collection, and the driver changes its mode.
CommandRequests ==
    {[Request(2 * TicksPerSecond, FilterTarget, 2) EXCEPT !.movement = {ZEROING_MANOEUVRE}]}

NextCommands ==
    \/ Enable
    \/ Collect(CommandRequests)
    \/ Tune({{ZEROING_MANOEUVRE}})
    \/ TuneWait
    \/ SetDriverMode
    \/ Spin
    \/ TuningLoop
    \/ DataTransmissionLoop
    \/ DataCollectionLoop

SpecCommands == StartsAs([TunedState EXCEPT !.plant = "follow"]) /\ [][NextCommands]_vars

\* The same with the tasks scheduled fairly: the Supervisor keeps ticking,
\* every task runs when it has something to do, and the caller of a tuning
\* command keeps giving.
SpecCommandsFair ==
    /\ SpecCommands
    /\ WF_vars(Spin) /\ WF_vars(TuningLoop) /\ WF_vars(TuneWait)
    /\ WF_vars(DataCollectionLoop) /\ WF_vars(DataTransmissionLoop)

\* ----------------------------------------------- the overwrite specification
\* The tuned drive when a manoeuvre requested with a data collection is
\* followed by M569.6 V0, which requests nothing and does not wait.
NextOverwrite ==
    \/ Collect(CommandRequests)
    \/ Tune({{}})
    \/ Spin
    \/ TuningLoop
    \/ DataTransmissionLoop
    \/ DataCollectionLoop

SpecOverwrite == StartsAs([TunedState EXCEPT !.plant = "follow"]) /\ [][NextOverwrite]_vars

\* ------------------------------------------------- the position specification
\* The tuned drive under control with the rotor anywhere within two
\* electrical cycles either side of the encoder's zero, moved by its load
\* while steps are commanded.
SpecCycle ==
    /\ \E steps \in -2 * StepsPerCycle .. 2 * StepsPerCycle :
          StartsAs([TunedState EXCEPT !.encoderOffset = steps * TrueCountsPerStep])
    /\ [][Spin \/ TakeStep]_vars

\* ------------------------------------------- the recording mode specification
\* The drive with its encoder configured; collections are requested that
\* start on the next move, sampled by the Supervisor tick (rate 2000) and by
\* the collection task (rate 1000), while steps are commanded in the forward
\* direction, so that the target never comes back to an earlier value.
NextMove ==
    \/ Collect({[Request(rate, FilterTarget, 2) EXCEPT !.mode = "OnNextMove"] :
                   rate \in {TicksPerSecond, 2 * TicksPerSecond}})
    \/ TakeStep /\ FLt(targetMotorSteps, targetMotorSteps')
    \/ Spin
    \/ DataCollectionLoop
    \/ DataTransmissionLoop

SpecMove == StartsAs(EncoderConfigured) /\ [][NextMove]_vars

\* ------------------------------------------------ the zeroing specification
\* The drive with its encoder configured; the encoder counts from where the
\* rotor stood at power-up, so that its reading at phase 0 is any count.
\* Tuning commands request the zeroing manoeuvre.
NextZero ==
    \/ Tune({{ZEROING_MANOEUVRE}})
    \/ TuneWait
    \/ TuningLoop

SpecZero ==
    /\ \E count \in {-5, 0, 3} : StartsAs([EncoderConfigured EXCEPT !.encoderOffset = count])
    /\ [][NextZero]_vars

\* ------------------------------------------------------------------ claims
\* A PID iteration ran to its end in this step (it did not return early on
\* a zero error).
IterationCompleted ==
    /\ pidIterations' = pidIterations + 1
    /\ collectingData \/ ~FEq(currentError', Fin(0))

\* C1: the magnitude of PIDITerm stays below the anti-windup ceiling 512
\* whatever the errors, the gains and their changes and the reset of the
\* Ziegler-Nichols search, and an update that would reach or exceed the
\* ceiling leaves PIDITerm unchanged.
C1_IntegralBelowCeiling ==
    /\ [](IsFin(PIDITerm) /\ AbsInt(PIDITerm.v) < IntegralCeiling * TermScale)
    /\ [][(/\ IterationCompleted
           /\ ~FLt(FAbs(FAdd(PIDITerm, FMul(Fin(Ki), currentError'))),
                   Fin(IntegralCeiling * TermScale)))
          => PIDITerm' = PIDITerm]_vars

\* An iteration with Ki = 300 and an error of 2 steps has run after the one
\* configuration command: 0 + 600 would exceed the ceiling, and PIDITerm is
\* still 0.
C1_UpdateDropped ==
    /\ pidIterations > 0 /\ commandCount = 1
    /\ Ki = 300 * GainScale
    /\ currentError = Fin(2 * StepScale) /\ lastError = currentError
    /\ PIDITerm = Fin(0)

\* C2: after a PID iteration desiredStepPhase is in [0, 4096), for every
\* stepPhase in [0, 4095] and phaseShift in [-1020, 1020], also for a
\* negative phaseShift larger in magnitude than stepPhase.
C2_PhaseInRange ==
    pidIterations = 1 => desiredStepPhase \in 0 .. PhasePeriod - 1

\* stepPhase 0 with the largest negative shift: the wrap correction applied.
C2_NegativeWrap ==
    /\ pidIterations = 1 /\ stepPhase = 0 /\ phaseShift = -1020
    /\ desiredStepPhase \in 0 .. PhasePeriod - 1

\* P + I + D clamped to [-255, 255] and converted to int16_t.
ClampedSum(p, i, d) ==
    LET sum == FAdd(FAdd(p, i), d)
    IN  IF FGe(sum, Fin(MaxSignal * TermScale)) THEN MaxSignal
        ELSE IF FGe(Fin(-MaxSignal * TermScale), sum) THEN -MaxSignal
        ELSE TruncDiv(sum.v, TermScale)

\* C3: in a PID iteration PIDControlSignal is P + I + D clamped to
\* [-255, 255] (so +255 when the sum is 255 or more, -255 when it is -255 or
\* less) and phaseShift is 4 times the signal; in every state the signal is
\* in [-255, 255] and the magnitude of phaseShift is at most 1020.
C3_SignalClamped ==
    /\ [](/\ PIDControlSignal \in -MaxSignal .. MaxSignal
          /\ AbsInt(phaseShift) <= 1020)
    /\ [][IterationCompleted =>
            /\ PIDControlSignal' = ClampedSum(PIDPTerm', PIDITerm', PIDDTerm')
            /\ phaseShift' = 4 * PIDControlSignal']_vars

\* An iteration whose terms add up to more than 255: the signal is 255 and
\* the shift 1020.
C3_Saturated ==
    /\ pidIterations > 0
    /\ FGe(FAdd(FAdd(PIDPTerm, PIDITerm), PIDDTerm), Fin(MaxSignal * TermScale))
    /\ lastError = currentError
    /\ PIDControlSignal = MaxSignal /\ phaseShift = 1020

\* C4: the desiredStepPhase a PID iteration computes is (stepPhase +
\* phaseShift) modulo 4096, the non-negative modulo, also when the sum is
\* negative and the wrap correction is applied.
C4_PhaseIsSumModuloPeriod ==
    pidIterations = 1 => desiredStepPhase = (stepPhase + phaseShift) % PhasePeriod

\* C5: desiredStepPhase is in [0, 4096) in every reachable state, and so is
\* every phase given to SetMotorPhase, those of the polarity detection,
\* zeroing and polarity check manoeuvres and the value left when a sweep
\* ends included.
C5_PhaseAlwaysInRange ==
    /\ desiredStepPhase \in 0 .. PhasePeriod - 1
    /\ motorPhase # NoPhase => motorPhase \in 0 .. PhasePeriod - 1

\* The index, from 1, of the first least element of the four totals.
FirstLeast(totals) ==
    CHOOSE i \in 1 .. 4 :
        /\ \A j \in 1 .. 4 : totals[i] <= totals[j]
        /\ \A j \in 1 .. i - 1 : totals[j] > totals[i]

DetectionEnds ==
    tuningTask.pc = "detect" /\ tuningTask'.pc # "detect" /\ ~crashed'

\* C6: when polarity detection ends the coil polarities are those of the
\* combination whose accumulated circular phase error over its sweep is the
\* least of the four, and of the one with the lowest index when several
\* have the least error.
C6_LeastErrorLowestIndex ==
    [][DetectionEnds =>
        LET best == FirstLeast(tuningTask'.l.totals) - 1
        IN  /\ coilAPolarity' = ((best \div 2) % 2 = 1)
            /\ coilBPolarity' = (best % 2 = 1)]_vars

\* Detection has ended and zeroing begun; combinations 1 and 2 tie with
\* the least error, and the polarities are those of combination 1.
C6_TieKeepsFirst ==
    /\ tuningTask.pc = "zero"
    /\ POLARITY_DETECTION_MANOEUVRE \notin tuning
    /\ tuningTask.l.totals[2] = tuningTask.l.totals[3]
    /\ tuningTask.l.totals[2] < tuningTask.l.totals[1]
    /\ tuningTask.l.totals[2] <= tuningTask.l.totals[4]
    /\ ~coilAPolarity /\ coilBPolarity

\* C7: a request to collect data is rejected exactly when numSamples times
\* the number of variables of the filter exceeds the capacity of the buffer,
\* at every rate and for every filter.
C7_RejectedExactlyWhenOverCapacity ==
    (/\ lastCommand.op = "StartDataCollection"
     /\ lastCommand.result \in {"ok", "error: maximum samples"})
    => (lastCommand.result = "error: maximum samples"
        <=> lastCommand.msg.numSamples * PopCount(lastCommand.msg.filter)
                > BufferCapacity)

\* C8: in every reachable state the read cursor is at most the write cursor
\* and the write cursor at most the capacity of the buffer.
C8_CursorsWithinCapacity ==
    /\ sampleBufferReadPointer <= sampleBufferWritePointer
    /\ sampleBufferWritePointer <= BufferCapacity

DrainPacketSent == packets' # packets /\ packets'.last.kind = "drain"

BufferReset == sampleBufferWritePointer > 0 /\ sampleBufferWritePointer' = 0

\* C9: each packet of the drain has for firstSampleNumber the number of
\* samples the packets before it carried since the buffer was reset, and
\* the payloads of the packets, in order, are the floats written to the
\* buffer, in the order they were written, none skipped and none repeated.
C9_PacketsCarryBufferInOrder ==
    [][DrainPacketSent =>
        /\ packets'.last.firstSampleNumber = packets.samples
        /\ Len(packets'.floats) <= Len(acquired')
        /\ packets'.floats = SubSeq(acquired', 1, Len(packets'.floats))]_vars

\* C10: the cursors are reset only when no collection is in progress and
\* the read cursor has reached the write cursor, and every float written
\* to the buffer has been transmitted when they are.
C10_ResetOnlyWhenDrained ==
    [][BufferReset =>
        /\ ~collectingData
        /\ sampleBufferReadPointer = sampleBufferWritePointer
        /\ packets.floats = acquired]_vars

\* C11: every packet of the drain carries at least one sample and only
\* complete samples of the variables of its filter; a packet without the
\* lastPacket flag carries floor(14 / number of variables) samples, and the
\* packet with the flag is the final one: it leaves nothing in the buffer.
C11_FullPacketsOneLast ==
    [][DrainPacketSent =>
        LET p == packets'.last
        IN  /\ p.numSamples > 0
            /\ Len(p.data) = p.numSamples * PopCount(p.filter)
            /\ ~p.lastPacket =>
                  p.numSamples = MaxFloatsInPacket \div PopCount(p.filter)
            /\ p.lastPacket =>
                  sampleBufferReadPointer' = sampleBufferWritePointer']_vars

\* C12: switching closed loop on or off while a manoeuvre is in progress
\* sets no bit of tuningError that was clear, and leaves the manoeuvres
\* requested as they were.
ClosedLoopSwitched ==
    /\ commandCount' = commandCount + 1
    /\ lastCommand'.op = "SetClosedLoopEnabled"
    /\ lastCommand'.result = "true"

C12_SwitchKeepsTuningError ==
    [][ClosedLoopSwitched /\ tuning # {} =>
          /\ tuningError' \subseteq tuningError
          /\ tuning' = tuning]_vars

\* C13: the Ziegler-Nichols manoeuvre saves Kp, Ki and Kd when it starts,
\* keeps the saved values while it runs, and on the step that clears its
\* bit the three gains are the saved values again.
SearchEntered == tuningTask.pc # "search" /\ tuningTask'.pc = "search"
SearchFinished ==
    /\ tuningTask.pc = "search"
    /\ ZIEGLER_NICHOLS_MANOEUVRE \in tuning
    /\ ZIEGLER_NICHOLS_MANOEUVRE \notin tuning'

C13_GainsRestored ==
    [][LET before == tuningTask.l.zn
           after == tuningTask'.l.zn
           saved(zn) == <<zn.prevKp, zn.prevKi, zn.prevKd>>
       IN  /\ SearchEntered => saved(after) = <<Kp, Ki, Kd>>
           /\ tuningTask.pc = "search" /\ tuningTask'.pc = "search"
                 => saved(after) = saved(before)
           /\ SearchFinished => <<Kp', Ki', Kd'>> = saved(before)]_vars

C13_SearchFinished ==
    /\ tuning = {}
    /\ tuningTask.pc = "await"
    /\ ultimateGain > 0
    /\ ultimateGain - tuningTask.l.zn.lowerBound <= SearchThreshold * GainScale
    /\ <<Kp, Ki, Kd>> = <<100 * GainScale, 2, 10 * GainScale>>

\* C14: the search terminates: no trial runs longer than its limit of ticks,
\* and every trial that ends and is followed by another has narrowed the
\* interval between lowerBound and upperBound, so that the trials are
\* bounded in number and the bit of the manoeuvre is cleared.
TrialEnded ==
    /\ tuningTask.pc = "search" /\ tuningTask'.pc = "search"
    /\ tuningTask.l.zn.time > 0 /\ tuningTask'.l.zn.time = 0

C14_EveryTrialNarrowsTheSearch ==
    [][LET before == tuningTask.l.zn
           after == tuningTask'.l.zn
       IN  /\ tuningTask.pc = "search" => before.time < TrialTicks
           /\ TrialEnded =>
                 after.upperBound - after.lowerBound
                     < before.upperBound - before.lowerBound]_vars

\* C15: a tuning command that passed its parameter checks records the
\* tuning errors present when it is accepted, and returns ok exactly when
\* tuningError is empty at its return, a warning exactly when tuningError is
\* not empty and holds no bit that was clear when the command was accepted,
\* and an error exactly when it holds such a bit.
TuningAccepted == commandTask.pc = "ready" /\ commandTask'.pc = "tuning"
TuningReturned == commandTask.pc = "tuning" /\ commandTask'.pc = "ready"

C15_ResultFromNewErrors ==
    [][/\ TuningAccepted => commandTask'.prevTuningError = tuningError
       /\ TuningReturned =>
             LET result == lastCommand'.result
                 before == commandTask.prevTuningError
             IN  /\ lastCommand'.op = "M569.6"
                 /\ result \in {"ok", "warning", "error"}
                 /\ result = "ok" <=> tuningError' = {}
                 /\ result = "warning" <=>
                        tuningError' # {} /\ tuningError' \subseteq before
                 /\ result = "error" <=> tuningError' \ before # {}]_vars

C15_FailureWithNewError ==
    /\ lastCommand = [op |-> "M569.6", result |-> "error"]
    /\ commandTask.pc = "ready"
    /\ tuning = {}
    /\ TUNE_ERR_INCORRECT_POLARITY \in tuningError
    /\ TUNE_ERR_NOT_FOUND_POLARITY \notin tuningError

\* C16: a tuning command returns only when nothing is left of its request
\* and the manoeuvres it requested have run to their end (every tuning
\* command of this specification requests the polarity detection, whose end
\* clears TUNE_ERR_NOT_FOUND_POLARITY), and under fair scheduling every
\* accepted tuning command does return.
C16_ReturnsAfterEveryManoeuvre ==
    /\ [][TuningReturned =>
             /\ tuning' = {}
             /\ TUNE_ERR_NOT_FOUND_POLARITY \notin tuningError']_vars
    /\ (commandTask.pc = "tuning") ~> (commandTask.pc = "ready")

\* C17: an M569.1 command with an encoder type that is not one of the
\* NumValues types, a coil polarity above 3 or a negative error threshold
\* returns an error and changes nothing of the configuration.
OutOfRange(c) ==
    \/ "T" \in c.seen /\ c.T >= EncoderTypeNumValues
    \/ "L" \in c.seen /\ c.L > 3
    \/ "E" \in c.seen /\ (c.E[1] < 0 \/ c.E[2] < 0)

C17_OutOfRangeRejectedUnchanged ==
    [][\A c \in EncoderCommands :
          OutOfRange(c) /\ CommandReady /\ Becomes(ProcessM569Point1(Counted(Now), c))
             => /\ lastCommand' = [op |-> "M569.1", result |-> "error"]
                /\ UNCHANGED <<encoder, encoderCountPerStep, encoderOffset, Kp, Ki, Kd,
                               coilAPolarity, coilBPolarity, errorThresholds,
                               tuningError, tuning, closedLoopEnabled>>]_vars

\* C18: an M569.1 command with C0 is refused and leaves encoderCountPerStep
\* as it was, and encoderCountPerStep is not zero when SetClosedLoopEnabled
\* divides the encoder reading by it.
C18_CountsPerStepNeverZero ==
    [][/\ \A c \in CountCommands :
             /\ "C" \in c.seen /\ c.C = 0
             /\ CommandReady /\ Becomes(ProcessM569Point1(Counted(Now), c))
             => /\ lastCommand' = [op |-> "M569.1", result |-> "error"]
                /\ encoderCountPerStep' = encoderCountPerStep
       /\ ClosedLoopSwitched => encoderCountPerStep # 0]_vars

\* C19: SetClosedLoopEnabled(true) without an encoder returns false and
\* leaves closedLoopEnabled, tuningError, targetMotorSteps and
\* currentMotorSteps as they were.
C19_EnableRefusedWithoutEncoder ==
    [][/\ CommandReady /\ encoder = "none"
       /\ \E s \in SetClosedLoopEnabled(Counted(Now), TRUE) : Becomes(s)
       => /\ lastCommand' = [op |-> "SetClosedLoopEnabled", result |-> "false"]
          /\ ~crashed'
          /\ UNCHANGED <<closedLoopEnabled, tuningError, targetMotorSteps,
                         currentMotorSteps, rawEncoderReading>>]_vars

C19_RefusedKeepingSystemError ==
    /\ lastCommand = [op |-> "SetClosedLoopEnabled", result |-> "false"]
    /\ encoder = "none"
    /\ ~closedLoopEnabled
    /\ TUNE_ERR_SYSTEM_ERROR \in tuningError

\* C20: while a data collection is active or the driver is not in direct
\* mode, a tuning command and a request to collect data are both refused at
\* once and leave the tuning request, the parameters of the collection,
\* collectingData and the cursors of the buffer as they were.
RefusalExpected == collectingData \/ driverMode # "direct"

C20_RefusedWhileCollectingOrNotDirect ==
    [][/\ CommandReady /\ RefusalExpected
       /\ \/ \E seenV \in BOOLEAN :
                Becomes(ProcessM569Point6(Counted(Now), seenV, {ZEROING_MANOEUVRE}))
          \/ \E msg \in CommandRequests :
                \E s \in StartDataCollection(Counted(Now), msg) : Becomes(s)
       => /\ lastCommand'.result \notin {"ok", "warning", "pending"}
          /\ UNCHANGED <<tuning, filterRequested, samplesRequested, rateRequested,
                         modeRequested, collectingData, sampleBufferReadPointer,
                         sampleBufferWritePointer>>]_vars

\* C21: a Supervisor tick with closed loop disabled runs no PID iteration
\* and leaves the tuning task alone; enabled with a tuning error it wakes
\* the tuning task and runs no PID iteration; enabled without errors it runs
\* one PID iteration exactly when nothing is requested and wakes the tuning
\* task otherwise.  While a collection at rate 0 is active the tick first
\* takes one sample, whatever the enablement.
SpinTick == ~crashed /\ \E s \in SpinResults(Now) : Becomes(s)

C21_TickDispatch ==
    [][SpinTick =>
          LET ran == pidIterations' = pidIterations + 1
              woken == tuningTask' = Give(tuningTask)
          IN  /\ ~crashed'
              /\ pidIterations' \in {pidIterations, pidIterations + 1}
              /\ ~closedLoopEnabled => ~ran /\ tuningTask' = tuningTask
              /\ closedLoopEnabled /\ tuningError # {} => ~ran /\ woken
              /\ closedLoopEnabled /\ tuningError = {} /\ tuning = {}
                    => ran /\ tuningTask' = tuningTask
              /\ closedLoopEnabled /\ tuningError = {} /\ tuning # {}
                    => ~ran /\ woken
              /\ sampleBufferWritePointer' =
                    IF collectingData /\ rateRequested = 0
                    THEN sampleBufferWritePointer + PopCount(filterRequested)
                    ELSE sampleBufferWritePointer]_vars

C21_ControlWhileSampling ==
    /\ pidIterations > 0
    /\ sampleBufferWritePointer > 0
    /\ collectingData /\ rateRequested = 0
    /\ closedLoopEnabled /\ tuningError = {} /\ tuning = {}
    /\ currentError = FSub(targetMotorSteps, currentMotorSteps)

\* C22: the Supervisor never runs a PID iteration while the tuning task is
\* inside a manoeuvre: on every tick that calls ControlMotorCurrents the
\* tuning task is waiting for a request.
C22_ControlOnlyWhileTuningTaskWaits ==
    [][SpinTick /\ pidIterations' = pidIterations + 1
          => tuningTask.pc \notin {"detect", "zero", "check", "search"}]_vars

\* C23: the bit of a requested manoeuvre is cleared exactly when the
\* manoeuvre has run to its end: the zeroing bit leaves tuning on the step
\* of the tuning task that ends the ramp, and on no other step.
ZeroingEnds == tuningTask.pc = "zero" /\ tuningTask'.pc # "zero" /\ ~crashed'

C23_BitClearedOnlyByItsManoeuvre ==
    [][/\ ZEROING_MANOEUVRE \in tuning /\ ZEROING_MANOEUVRE \notin tuning'
             => ZeroingEnds
       /\ ZeroingEnds => ZEROING_MANOEUVRE \notin tuning']_vars

\* C24: a bit of tuningError is cleared only by the successful end of its
\* own manoeuvre: the not-found, not-zeroed and not-checked bits on the
\* step of the tuning task that ends the detection, the ramp, a check that
\* sets no incorrect-polarity bit, or the stub of that name, and the bits
\* that report a failure on no step at all.
Cleared(bit) == bit \in tuningError /\ bit \notin tuningError'
Leaves(pc) == tuningTask.pc = pc /\ tuningTask'.pc # pc
StubRuns(m) ==
    /\ m \in tuning /\ m \notin tuning'
    /\ tuningTask.pc \in {"start", "detect", "zero", "check"}

C24_ErrorClearedOnlyBySuccess ==
    [][/\ Cleared(TUNE_ERR_NOT_FOUND_POLARITY) => Leaves("detect")
       /\ Cleared(TUNE_ERR_NOT_ZEROED) => Leaves("zero")
       /\ Cleared(TUNE_ERR_NOT_CHECKED_POLARITY) =>
             /\ Leaves("check")
             /\ TUNE_ERR_INCORRECT_POLARITY \in tuningError'
                   => TUNE_ERR_INCORRECT_POLARITY \in tuningError
       /\ Cleared(TUNE_ERR_NOT_CHECKED_CONTROL) => StubRuns(CONTROL_CHECK)
       /\ Cleared(TUNE_ERR_NOT_CHECKED_ENCODER_STEPS) => StubRuns(ENCODER_STEPS_CHECK)
       /\ \A bit \in {TUNE_ERR_INCORRECT_POLARITY, TUNE_ERR_CONTROL_FAILED,
                       TUNE_ERR_SYSTEM_ERROR} : ~Cleared(bit)]_vars

\* C25: every bit of TUNE_ERR_NOT_PERFORMED_MINIMAL_TUNE is set after
\* closed loop has been switched on and after an accepted M569.1 that
\* carries the encoder type or the counts per step; an M569.1 that carries
\* neither of the two leaves tuningError as it was.
C25_RetuneOnEnableAndEncoderChange ==
    [][/\ ClosedLoopSwitched /\ closedLoopEnabled'
             => TUNE_ERR_NOT_PERFORMED_MINIMAL_TUNE \subseteq tuningError'
       /\ \A c \in EncoderCommands :
             CommandReady /\ Becomes(ProcessM569Point1(Counted(Now), c))
             => IF c.seen \cap {"T", "C"} = {}
                THEN tuningError' = tuningError
                ELSE lastCommand'.result = "ok"
                        => TUNE_ERR_NOT_PERFORMED_MINIMAL_TUNE \subseteq tuningError']_vars

C25_ThresholdsKeepPartialTune ==
    /\ lastCommand = [op |-> "M569.1", result |-> "ok"]
    /\ errorThresholds = <<1, 1>>
    /\ TUNE_ERR_NOT_FOUND_POLARITY \notin tuningError
    /\ TUNE_ERR_NOT_ZEROED \in tuningError

\* The tuning task passes the direct-mode test of a pass with the drive in
\* another mode; the mode changes only while the task awaits a request, so
\* from this step until the task awaits again the pass is the aborted one.
AbortedPassRuns == tuningTask.pc = "start" /\ driverMode # "direct" /\ tuningTask'.pc # "start"

\* C26: a pass of the tuning task that finds the drive not in direct mode
\* sets tuning to 0 and TUNE_ERR_SYSTEM_ERROR, and the rest of that pass
\* runs no manoeuvre and commands no phase: the coil polarities, Kp, Ki, Kd,
\* the target position and the encoder offset stay as they were, whatever
\* commands set in tuning while the pass runs.
C26_AbortedPassRunsNothing ==
    [][/\ tuningTask.pc = "await" /\ tuningTask'.pc # "await" /\ driverMode # "direct"
             => tuning' = {} /\ TUNE_ERR_SYSTEM_ERROR \in tuningError'
       /\ AbortedPassRuns
             => /\ tuningTask'.pc = "await"
                /\ UNCHANGED <<motorPhase, desiredStepPhase, coilAPolarity, coilBPolarity,
                               Kp, Ki, Kd, targetMotorSteps, encoderOffset>>]_vars

\* C27: every trial of the Ziegler-Nichols search, however it ends, moves
\* exactly one bound to the Kp it ran with, the other bound staying; Kp lies
\* between the bounds, which lie in [0, 10000], while the search runs; and
\* ultimateGain is the upper bound when the search ends.
C27_EveryTrialMovesOneBound ==
    [][LET before == tuningTask.l.zn
           after == tuningTask'.l.zn
       IN  /\ tuningTask'.pc = "search"
                 => /\ 0 <= after.lowerBound /\ after.lowerBound <= Kp'
                    /\ Kp' <= after.upperBound
                    /\ after.upperBound <= InitialUpperBound * GainScale
           /\ TrialEnded \/ SearchFinished
                 => \/ after.lowerBound = Kp /\ after.upperBound = before.upperBound
                                             /\ before.lowerBound < Kp
                    \/ after.upperBound = Kp /\ after.lowerBound = before.lowerBound
                                             /\ Kp < before.upperBound
           /\ SearchFinished => ultimateGain' = after.upperBound]_vars

\* C28: the zeroing manoeuvre commands phases that strictly decrease, each
\* half of the one before (rounded down), and leaves the ramp only after
\* phase 0 was commanded; on the step that ends it the encoder's zero is
\* moved by the raw reading taken on that step, targetMotorSteps is 0 and
\* the zeroing bit is cleared in tuning and in tuningError.
TuningRuns == ~crashed /\ \E s \in TuningLoopStep(Now) : Becomes(s)

C28_ZeroingRampAndOffset ==
    [][/\ TuningRuns /\ tuningTask.pc = "zero" /\ tuningTask'.pc = "zero"
             => /\ motorPhase' < motorPhase
                /\ motorPhase' = motorPhase \div 2
                /\ desiredStepPhase' = motorPhase'
                /\ UNCHANGED <<encoderOffset, targetMotorSteps, tuning, tuningError>>
       /\ TuningRuns /\ tuningTask.pc # "zero" /\ tuningTask'.pc = "zero"
             => motorPhase' = PhasePeriod
       /\ ZeroingEnds
             => /\ motorPhase = 0 /\ desiredStepPhase = 0
                /\ encoderOffset' = encoderOffset - rawEncoderReading'
                /\ rawEncoderReading' \in ReadingsIn(Now)
                /\ targetMotorSteps' = Fin(0)
                /\ ZEROING_MANOEUVRE \notin tuning'
                /\ TUNE_ERR_NOT_ZEROED \notin tuningError']_vars

C28_ZeroedAwayFromOldZero ==
    /\ tuningTask.pc = "await"
    /\ lastCommand = [op |-> "M569.6", result |-> "warning"]
    /\ tuning = {}
    /\ TUNE_ERR_NOT_ZEROED \notin tuningError
    /\ motorPhase = 0
    /\ rawEncoderReading = 3
    /\ encoderOffset = 0
    /\ targetMotorSteps = Fin(0)

\* C29: the polarity check commands the 16 phases 0, 256, .., 3840 with the
\* coil polarities as they are; a point deviates when the measured phase is
\* further than max_err from the commanded one, the shorter way round; the
\* step that ends the check clears POLARITY_CHECK in tuning and
\* TUNE_ERR_NOT_CHECKED_POLARITY in tuningError, and
\* TUNE_ERR_INCORRECT_POLARITY is set when more than 10 points deviated and
\* is as it was otherwise.
PointDeviates ==
    LET d == AbsInt(stepPhase' - desiredStepPhase)
    IN  MinInt(d, PhaseScale - d) > tuningTask.l.max_err

C29_PolarityCheckJudgesSixteenPoints ==
    [][TuningRuns =>
         LET counted == tuningTask.l.deviations + (IF PointDeviates THEN 1 ELSE 0)
         IN  /\ tuningTask.pc # "check" /\ tuningTask'.pc = "check"
                   => motorPhase' = 0 /\ tuningTask'.l.deviations = 0
             /\ tuningTask.pc = "check"
                   => /\ motorPhase = desiredStepPhase
                      /\ coilAPolarity' = coilAPolarity /\ coilBPolarity' = coilBPolarity
                      /\ tuningTask'.l.deviations = counted
             /\ tuningTask.pc = "check" /\ tuningTask'.pc = "check"
                   => /\ motorPhase' = motorPhase + SweepIncrement
                      /\ UNCHANGED <<tuning, tuningError>>
             /\ Leaves("check")
                   => /\ motorPhase = 15 * SweepIncrement
                      /\ POLARITY_CHECK \notin tuning'
                      /\ TUNE_ERR_NOT_CHECKED_POLARITY \notin tuningError'
                      /\ TUNE_ERR_INCORRECT_POLARITY \in tuningError'
                            <=> \/ counted > 10
                                \/ TUNE_ERR_INCORRECT_POLARITY \in tuningError]_vars

C29_CheckFailed ==
    /\ tuningTask.pc = "await"
    /\ tuningTask.l.deviations > 10
    /\ POLARITY_CHECK \notin tuning
    /\ tuningError \cap {TUNE_ERR_NOT_CHECKED_POLARITY, TUNE_ERR_INCORRECT_POLARITY}
          = {TUNE_ERR_INCORRECT_POLARITY}

\* C30: the control check and the encoder steps check clear their bit in
\* tuning and their not-checked bit in tuningError; so a tuning command that
\* requested every manoeuvre of the minimal tune with closed loop enabled
\* and returns with no polarity, control or system error set returns ok
\* with tuningError empty, and the Supervisor tick that follows that
\* return runs a PID iteration.
C30_CompleteTuneLetsControlRun ==
    [][/\ TuningRuns /\ tuningTask.pc # "await"
             => /\ CONTROL_CHECK \in tuning /\ CONTROL_CHECK \notin tuning'
                      => TUNE_ERR_NOT_CHECKED_CONTROL \notin tuningError'
                /\ ENCODER_STEPS_CHECK \in tuning /\ ENCODER_STEPS_CHECK \notin tuning'
                      => TUNE_ERR_NOT_CHECKED_ENCODER_STEPS \notin tuningError'
                /\ tuningTask'.pc = "await"
                      => tuning' \cap {CONTROL_CHECK, ENCODER_STEPS_CHECK} = {}
       /\ (/\ TuningReturned /\ closedLoopEnabled
           /\ MinimalTune \subseteq commandTask.desiredTuning
           /\ tuningError' \cap {TUNE_ERR_INCORRECT_POLARITY, TUNE_ERR_CONTROL_FAILED,
                                  TUNE_ERR_SYSTEM_ERROR} = {})
             => tuningError' = {} /\ lastCommand'.result = "ok"
       /\ (/\ SpinTick /\ closedLoopEnabled /\ commandTask.pc = "ready"
           /\ lastCommand = [op |-> "M569.6", result |-> "ok"])
             => pidIterations' = pidIterations + 1 /\ ~crashed']_vars

C30_ControlAfterCompleteTune ==
    /\ closedLoopEnabled
    /\ lastCommand = [op |-> "M569.6", result |-> "ok"]
    /\ tuningError = {} /\ tuning = {}
    /\ tuningTask.l.deviations <= 10
    /\ pidIterations > 0
    /\ currentError = FSub(targetMotorSteps, currentMotorSteps)

\* C31: in a collection sampled by the Supervisor tick (rateRequested = 0)
\* every sample appends PopCount(filterRequested) floats, and the sample
\* that stops the collection is the one with which the buffer holds
\* samplesRequested * PopCount(filterRequested) floats of this collection.
\* The count the collection is stopped by is sampleBufferWritePointer, so
\* that it counts this collection alone it is 0 when the collection is armed.
CollectionArmed == ~collectingData /\ collectingData' /\ rateRequested' = 0
SampleAppended ==
    /\ collectingData /\ rateRequested = 0
    /\ sampleBufferWritePointer' > sampleBufferWritePointer

C31_StopsAfterSamplesRequested ==
    [][/\ SampleAppended
             => /\ sampleBufferWritePointer'
                      = sampleBufferWritePointer + PopCount(filterRequested)
                /\ ~collectingData'
                      <=> sampleBufferWritePointer'
                             = samplesRequested * PopCount(filterRequested)
       /\ CollectionArmed => sampleBufferWritePointer' = 0]_vars

\* C32: in a collection armed with the mode on-next-move no sample is put
\* into the buffer and no packet of samples is sent while targetMotorSteps
\* is what it was when the collection was armed, at every rate.
SampleTaken ==
    \/ sampleBufferWritePointer' > sampleBufferWritePointer
    \/ packets' # packets /\ packets'.last.kind = "stream"

C32_NoSampleBeforeTheMove ==
    [][/\ collectingData /\ modeRequested = "OnNextMove"
       /\ lastCommand.op = "StartDataCollection" /\ lastCommand.result = "ok"
       /\ SampleTaken
       => targetMotorSteps # lastCommand.target]_vars

\* C33: Kp, Ki, Kd, the coil polarities and the error thresholds are changed
\* by accepted configuration commands only: a Supervisor tick leaves them as
\* they are, and so does every other step that is not an M569.1 that
\* returned ok.
PIDParameters == <<Kp, Ki, Kd, coilAPolarity, coilBPolarity, errorThresholds>>

C33_ParametersChangedByConfigurationOnly ==
    [][/\ SpinTick => UNCHANGED PIDParameters
       /\ PIDParameters' # PIDParameters
             => /\ commandCount' = commandCount + 1
                /\ lastCommand' = [op |-> "M569.1", result |-> "ok"]]_vars

\* C34: the stepPhase a PID iteration computes from currentMotorSteps is in
\* [0, 4096) and is the stepPhase of the position's non-negative residue
\* modulo one electrical cycle of 4 steps: positions a whole number of
\* cycles apart, negative ones included, give the same stepPhase.
C34_StepPhaseOfResidue ==
    [][SpinTick /\ IterationCompleted /\ IsFin(currentMotorSteps')
       => /\ stepPhase' \in 0 .. PhasePeriod - 1
          /\ stepPhase' = ((currentMotorSteps'.v % CycleUnits) * PhaseScale) \div CycleUnits]_vars

\* C35: whenever a collection has finished with floats in the buffer, the
\* transmission task, scheduled fairly, empties the buffer: the read cursor
\* reaches the write cursor and both cursors come back to 0.
C35_BufferDrainedAndReset ==
    (~collectingData /\ sampleBufferWritePointer > 0)
        ~> (sampleBufferWritePointer = 0 /\ sampleBufferReadPointer = 0)

\* C36: a manoeuvre request that has been set, by a tuning command or with
\* an accepted data collection, with closed loop enabled or disabled, is
\* taken up by the tuning task and cleared: tuning returns to 0.
C36_TuningRequestServed ==
    (tuning # {}) ~> (tuning = {})

\* C37: the encoder is never read while none is configured (no operation
\* has dereferenced the null encoder), and closed loop is enabled only while
\* an encoder is configured.
C37_EncoderExistsWhenRead ==
    /\ ~crashed
    /\ closedLoopEnabled => encoder # "none"

====
